---------------------------- MODULE Spec2Model ----------------------------
(***************************************************************************)
(* Wardrobe Quality Scoring Engine (app/services/quality): the five        *)
(* dimension scorers, the suggestion generator, the engine's compute /     *)
(* persist cycle and the scheduled refresh loop of workers/tasks.py.       *)
(*                                                                         *)
(* Python floats are modelled as exact rationals <<num, den>> kept in      *)
(* lowest terms, so that equality of two scores is structural equality.    *)
(* Timestamps are whole days.                                              *)
(***************************************************************************)
EXTENDS Integers, Sequences, FiniteSets, TLC

VARIABLES
    items,            \* table item: sequence of rows, id = position
    outfits,          \* table outfit (+ outfit_item rows): id = position
    wear_logs,        \* table outfit_wear_log: id = position
    owl_items,        \* table outfit_wear_log_item: set of (wear_log_id, item_id)
    item_wear_logs,   \* table item_wear_log: sequence of rows
    prefs,            \* user.quality_preferences, per user
    now,              \* wall clock (day number)
    scores,           \* table wardrobe_quality_score (durable rows)
    suggestions,      \* table wardrobe_quality_suggestion (durable rows)
    last,             \* what the latest compute_score call returned / built
    sess,             \* the SQLAlchemy session of the running task
    loop,             \* refresh_all_quality_scores: position in the user loop
    next_id,          \* source of fresh primary keys (uuid4)
    generated,        \* history: the ids of each score record built and of its batch
    reqs              \* the API requests under way, per client connection

vars == <<items, outfits, wear_logs, owl_items, item_wear_logs, prefs, now,
          scores, suggestions, last, sess, loop, next_id, generated, reqs>>

dataVars == <<items, outfits, wear_logs, owl_items, item_wear_logs, prefs>>

None == "None"     \* NULL in a text column
Null == 0          \* NULL in a timestamp or foreign-key column (ids and days start at 1)

-----------------------------------------------------------------------------
(* Bounds of the explored input space.                                     *)

MaxItems == 7          \* active items of a wardrobe drawn by Init
MaxLookItems == 5      \* items of the wardrobes that vary colours, patterns and tags
MaxOutfits == 3        \* outfits of a wardrobe drawn by Init
MaxWearLogs == 2       \* outfit wear logs drawn by Init
MaxItemLogs == 2       \* standalone item wear logs drawn by Init
NumUsers == 2
MaxClockSteps == 2     \* clock advances of NeglectDays explored by SpecClock, SpecPersist
MaxClockLogs == 1      \* wear logs of either kind in the wardrobes of SpecClock
MaxRecomputes == 2     \* compute_score calls per behaviour of SpecClock
MaxComputes == 4       \* compute_score calls per behaviour of SpecPersist
MaxAdds == 4         \* items added per behaviour of SpecGrow
ManyTops == 10       \* the tops of the lopsided wardrobe (and its bottoms, mirrored)
MaxUpdates == 1      \* suggestions that leave pending per behaviour of SpecApi
MaxApiComputes == 2  \* compute_score calls per behaviour of SpecApi, SpecRace

-----------------------------------------------------------------------------
(* Exact rational arithmetic standing in for Python float arithmetic.      *)

RECURSIVE GCD(_, _)
GCD(a, b) == IF b = 0 THEN a ELSE GCD(b, a % b)

Abs(n) == IF n < 0 THEN -n ELSE n

\* n/d in lowest terms with a positive denominator; n/0 is ZeroDivisionError and has no
\* value (the division by g = 0 below stops the evaluation)
Rat(n, d) ==
    LET g == IF d = 0 THEN 0 ELSE GCD(Abs(n), Abs(d))
        s == IF d < 0 THEN -1 ELSE 1
    IN  <<(s * n) \div g, (s * d) \div g>>

RInt(n) == <<n, 1>>
RAdd(a, b) == Rat(a[1] * b[2] + b[1] * a[2], a[2] * b[2])
RSub(a, b) == Rat(a[1] * b[2] - b[1] * a[2], a[2] * b[2])
RMul(a, b) == Rat(a[1] * b[1], a[2] * b[2])
RLe(a, b) == a[1] * b[2] <= b[1] * a[2]
RLt(a, b) == a[1] * b[2] < b[1] * a[2]
RMin(a, b) == IF RLe(a, b) THEN a ELSE b
RMax(a, b) == IF RLe(a, b) THEN b ELSE a

RECURSIVE RSum(_)
RSum(s) == IF s = <<>> THEN RInt(0) ELSE RAdd(Head(s), RSum(Tail(s)))

RECURSIVE SumSeq(_)
SumSeq(s) == IF s = <<>> THEN 0 ELSE Head(s) + SumSeq(Tail(s))

SeqToSet(s) == {s[i] : i \in 1..Len(s)}

\* a slice that was forgotten
NoSlice(s, n) == s

\* s[:n]
Prefix(s, n) == SubSeq(s, 1, IF Len(s) < n THEN Len(s) ELSE n)


\* sorted(values): the multiset {cnt[k] : k \in K} as an ascending sequence
RECURSIVE SortedValues(_, _)
SortedValues(K, cnt) ==
    IF K = {} THEN <<>>
    ELSE LET k == CHOOSE x \in K : \A y \in K : cnt[x] <= cnt[y]
         IN  <<cnt[k]>> \o SortedValues(K \ {k}, cnt)

-----------------------------------------------------------------------------
(* Program constants.                                                      *)

Dimensions == <<"versatility", "utilization", "completeness", "balance", "diversity">>

\* settings.QUALITY_WEIGHT_* in hundredths, in the order of self.scorers
Weight == [versatility |-> Rat(30, 100), utilization |-> Rat(25, 100),
           completeness |-> Rat(20, 100), balance |-> Rat(15, 100),
           diversity |-> Rat(10, 100)]

\* settings.QUALITY_DIVERSITY_*_DEFAULT: the dict compute_score falls back to
DiversityDefault == [colors |-> "off", patterns |-> "on", seasons |-> "on", styles |-> "on"]

CORE_CATEGORIES == {"top", "bottom", "footwear", "outerwear"}

NeglectDays == 30
HighScore == 80
MaxSuggestions == 10
MaxRelated == 5

\* str.lower() on the tags that occur in the explored wardrobes
Lower(t) ==
    CASE t = "Casual" -> "casual"
      [] t = "Summer" -> "summer"
      [] OTHER -> t

LowerAll(tags) == {Lower(t) : t \in tags}

\* a scorer that returns the raw sum
NoClamp(value) == value

\* BaseScorer._clamp_score
_clamp_score(value) == RMax(RInt(0), RMin(RInt(100), value))

DimensionResult(score, confidence, why, factors) ==
    [score |-> score, confidence |-> confidence, why |-> why,
     contributing_factors |-> factors]

-----------------------------------------------------------------------------
(* ScoringContext and QualityEngine._load_context.                         *)

ActiveItems(u) == SelectSeq(items, LAMBDA it : it.user_id = u /\ it.status = "active")
UserOutfits(u) == SelectSeq(outfits, LAMBDA o : o.user_id = u)
LiveWearLogs(u) == SelectSeq(wear_logs, LAMBDA l : l.user_id = u /\ l.deleted_at = Null)
LiveItemWearLogs(u) ==
    SelectSeq(item_wear_logs, LAMBDA l : l.user_id = u /\ l.deleted_at = Null)

_load_context(u, diversity_config) ==
    LET wl == LiveWearLogs(u)
        wear_log_ids == {wl[i].id : i \in 1..Len(wl)}
    IN  [user_id |-> u,
         items |-> ActiveItems(u),
         outfits |-> UserOutfits(u),
         wear_logs |-> wl,
         item_wear_logs |-> LiveItemWearLogs(u),
         outfit_wear_log_items |-> {r \in owl_items : r.wear_log_id \in wear_log_ids},
         diversity_config |-> diversity_config]

items_count(ctx) == Len(ctx.items)
outfits_count(ctx) == Len(ctx.outfits)
wear_logs_count(ctx) == Len(ctx.wear_logs) + Len(ctx.item_wear_logs)

ItemIds(ctx) == {ctx.items[i].id : i \in 1..Len(ctx.items)}

-----------------------------------------------------------------------------
(* VersatilityScorer.score                                                 *)

\* every outfit_item row of the context, as a sequence of item ids
RECURSIVE OutfitRefs(_)
OutfitRefs(os) == IF os = <<>> THEN <<>> ELSE Head(os).items \o OutfitRefs(Tail(os))

\* Counter: number of occurrences of x in the sequence s
CountIn(s, x) == Cardinality({i \in 1..Len(s) : s[i] = x})

VersatilityScore(ctx) ==
    IF items_count(ctx) < 5
    THEN DimensionResult(RInt(0), Rat(3, 10), [text |-> "Need at least 5 items"],
                         <<"insufficient_items">>)
    ELSE
    LET refs == OutfitRefs(ctx.outfits)
        keys == SeqToSet(refs)
    IN  IF keys = {}
        THEN DimensionResult(RInt(30), Rat(1, 2), [text |-> "No outfits created yet"],
                             <<"no_outfits">>)
        ELSE
        LET items_in_outfits == Cardinality(keys)
            avg_outfits_per_item == Rat(Len(refs), items_in_outfits)
            items_in_multiple == Cardinality({k \in keys : CountIn(refs, k) > 1})
            reuse_ratio == Rat(items_in_multiple, items_in_outfits)
            usage_ratio == Rat(items_in_outfits, items_count(ctx))
            base_score == RMul(usage_ratio, RInt(40))
            reuse_score == RMul(reuse_ratio, RInt(40))
            density_score == RMul(RMin(RMul(avg_outfits_per_item, Rat(1, 3)), RInt(1)),
                                  RInt(20))
            total == _clamp_score(RAdd(RAdd(base_score, reuse_score), density_score))
            factors == (IF RLt(Rat(1, 2), reuse_ratio) THEN <<"high_reuse">> ELSE <<>>)
                       \o (IF RLt(usage_ratio, Rat(3, 10)) THEN <<"many_unused_items">>
                           ELSE <<>>)
        IN  DimensionResult(total,
                            RMin(Rat(9, 10), RAdd(Rat(1, 2), Rat(outfits_count(ctx), 20))),
                            [text |-> "items appear in multiple outfits",
                             items_in_multiple |-> items_in_multiple,
                             items_in_outfits |-> items_in_outfits,
                             avg |-> avg_outfits_per_item],
                            factors)

-----------------------------------------------------------------------------
(* UtilizationScorer.score                                                 *)

\* log.worn_at or log.created_at
WornAt(log) == IF log.worn_at # Null THEN log.worn_at ELSE log.created_at

\* counting every item wear log, back-referenced or not
EveryItemLog(ctx) == 1..Len(ctx.item_wear_logs)

\* item wear logs that the scorer counts: those without an outfit back-reference
Standalone(ctx) ==
    {i \in 1..Len(ctx.item_wear_logs) : ctx.item_wear_logs[i].source_outfit_log_id = Null}

\* keys of the Counter item_wear_count
WornIds(ctx) ==
    {r.item_id : r \in ctx.outfit_wear_log_items}
    \cup {ctx.item_wear_logs[i].item_id : i \in Standalone(ctx)}

\* item_wear_count[item_id]
item_wear_count(ctx, id) ==
    Cardinality({r \in ctx.outfit_wear_log_items : r.item_id = id})
    + Cardinality({i \in Standalone(ctx) : ctx.item_wear_logs[i].item_id = id})

\* the timestamps that update item_last_worn[id] (only truthy ones do)
WornTimes(ctx, id) ==
    LET ts(wid) == LET l == CHOOSE l \in SeqToSet(ctx.wear_logs) : l.id = wid
                   IN  WornAt(l)
    IN  ({ts(r.wear_log_id) : r \in {q \in ctx.outfit_wear_log_items : q.item_id = id}}
         \cup {WornAt(ctx.item_wear_logs[i]) :
                 i \in {j \in Standalone(ctx) : ctx.item_wear_logs[j].item_id = id}})
        \ {Null}

\* item_last_worn[id], defined for the ids of LastWornIds
LastWornIds(ctx) == {id \in WornIds(ctx) : WornTimes(ctx, id) # {}}
item_last_worn(ctx, id) ==
    CHOOSE t \in WornTimes(ctx, id) : \A t2 \in WornTimes(ctx, id) : t2 <= t

\* a neglect window of twice the length
NeglectedSixtyDays(ctx, clock) ==
    Cardinality({id \in LastWornIds(ctx) :
                   item_last_worn(ctx, id) < clock - 2 * NeglectDays})

\* sum(1 for item_id, last in item_last_worn.items() if last < thirty_days_ago)
Neglected(ctx, clock) ==
    Cardinality({id \in LastWornIds(ctx) : item_last_worn(ctx, id) < clock - NeglectDays})

\* sum((i + 1) * c for i, c in enumerate(sorted_counts))
RECURSIVE Cumulative(_, _)
Cumulative(sorted_counts, i) ==
    IF i > Len(sorted_counts) THEN 0
    ELSE i * sorted_counts[i] + Cumulative(sorted_counts, i + 1)

\* the ranks counted from 0: sum(i * c ...) in place of sum((i + 1) * c ...)
GiniFromZero(sorted_counts) ==
    LET n == Len(sorted_counts)
    IN  RSub(Rat(2 * (Cumulative(sorted_counts, 1) - SumSeq(sorted_counts)),
                 n * SumSeq(sorted_counts)),
             Rat(n + 1, n))

Gini(sorted_counts) ==
    LET n == Len(sorted_counts)
    IN  RSub(Rat(2 * Cumulative(sorted_counts, 1), n * SumSeq(sorted_counts)),
             Rat(n + 1, n))

UtilizationScore(ctx, clock) ==
    IF items_count(ctx) < 3
    THEN DimensionResult(RInt(0), Rat(2, 10), [text |-> "Need at least 3 items"],
                         <<"insufficient_items">>)
    ELSE
    LET worn == WornIds(ctx)
        cnt == [id \in worn |-> item_wear_count(ctx, id)]
        sorted_counts == SortedValues(worn, cnt)
        total_wears == SumSeq(sorted_counts)
        items_worn == Cardinality(worn)
        items_never_worn == items_count(ctx) - items_worn
        neglected == Neglected(ctx, clock)
    IN  IF total_wears = 0
        THEN DimensionResult(RInt(20), Rat(4, 10), [text |-> "No wear logs recorded yet"],
                             <<"no_wear_logs">>)
        ELSE
        LET worn_ratio == Rat(items_worn, items_count(ctx))
            active_items == items_worn - neglected
            active_ratio == Rat(active_items, items_count(ctx))
            distribution_score ==
                IF items_worn > 1
                THEN RMul(RSub(RInt(1), Gini(sorted_counts)), RInt(30))
                ELSE RInt(15)
            worn_score == RMul(worn_ratio, RInt(35))
            active_score == RMul(active_ratio, RInt(35))
            total == _clamp_score(RAdd(RAdd(worn_score, active_score), distribution_score))
            factors == (IF 10 * items_never_worn > 3 * items_count(ctx)
                        THEN <<"many_unworn_items">> ELSE <<>>)
                       \o (IF 2 * neglected > items_worn
                           THEN <<"many_neglected_items">> ELSE <<>>)
        IN  DimensionResult(total,
                            RMin(Rat(95, 100), RAdd(Rat(4, 10), Rat(total_wears, 50))),
                            [text |-> "items worn",
                             items_worn |-> items_worn,
                             items_count |-> items_count(ctx),
                             items_never_worn |-> items_never_worn,
                             neglected |-> neglected],
                            factors)

-----------------------------------------------------------------------------
(* CompletenessScorer.score and BalanceScorer.score                        *)

\* cat = item.category or item.kind
Cat(item) == IF item.category # None THEN item.category ELSE item.kind

\* category_counts.get(c, 0)
category_counts(ctx, c) == Cardinality({i \in 1..Len(ctx.items) : Cat(ctx.items[i]) = c})

\* a onepiece counted as a top only
TopOnlyCounts(ctx, c) ==
    IF c = "top"
    THEN category_counts(ctx, c) + category_counts(ctx, "onepiece")
    ELSE category_counts(ctx, c)

\* effective_counts.get(c, 0): a onepiece counts as a top and as a bottom
effective_counts(ctx, c) ==
    IF c \in {"top", "bottom"}
    THEN category_counts(ctx, c) + category_counts(ctx, "onepiece")
    ELSE category_counts(ctx, c)

\* the tag set overwritten by every item instead of extended: the last item's tags
LastItemTags(ctx, column) ==
    IF Len(ctx.items) = 0 THEN {} ELSE LowerAll(ctx.items[Len(ctx.items)][column])

\* the distinct lower-cased tags of one tag column over all items
AllTags(ctx, column) == UNION {LowerAll(ctx.items[i][column]) : i \in 1..Len(ctx.items)}

\* [c for c in CORE_CATEGORIES if effective_counts.get(c, 0) == 0], as a set
MissingCore(ctx) == {c \in CORE_CATEGORIES : effective_counts(ctx, c) = 0}

\* the lists that iterating the set S can yield: its members in any order
\* (CORE_CATEGORIES is a set of str, whose hashing is randomised per process)
OrdersOf(S) ==
    {o \in [1..Cardinality(S) -> S] : \A i, j \in 1..Cardinality(S) : i # j => o[i] # o[j]}

\* f"missing_{c}"
MissingFactor(c) ==
    CASE c = "top" -> "missing_top"
      [] c = "bottom" -> "missing_bottom"
      [] c = "footwear" -> "missing_footwear"
      [] c = "outerwear" -> "missing_outerwear"

\* sum(min(effective_counts.get(c, 0) / 3, 1.0) for c in cats)
RECURSIVE VarietySum(_, _)
VarietySum(ctx, cats) ==
    IF cats = {} THEN RInt(0)
    ELSE LET c == CHOOSE x \in cats : TRUE
         IN  RAdd(RMin(Rat(effective_counts(ctx, c), 3), RInt(1)),
                  VarietySum(ctx, cats \ {c}))

\* `missing` is the list of the missing core categories in iteration order
CompletenessScore(ctx, missing) ==
    IF items_count(ctx) = 0
    THEN DimensionResult(RInt(0), Rat(1, 2), [text |-> "No items in wardrobe yet"],
                         <<"empty_wardrobe">>)
    ELSE
    LET event_coverage == AllTags(ctx, "event_tags")
        onepiece_count == category_counts(ctx, "onepiece")
        core_present == Cardinality({c \in CORE_CATEGORIES : effective_counts(ctx, c) > 0})
        core_ratio == Rat(core_present, Cardinality(CORE_CATEGORIES))
        variety_score ==
            RMul(VarietySum(ctx, CORE_CATEGORIES), Rat(1, Cardinality(CORE_CATEGORIES)))
        event_score == RMin(Rat(Cardinality(event_coverage), 4), RInt(1))
        total == _clamp_score(RAdd(RAdd(RMul(core_ratio, RInt(50)),
                                        RMul(variety_score, RInt(30))),
                                   RMul(event_score, RInt(20))))
        factors == IF missing # <<>> THEN <<MissingFactor(missing[1])>> ELSE <<>>
    IN  DimensionResult(total, Rat(9, 10),
                        [text |-> "core categories covered",
                         core_present |-> core_present,
                         core_total |-> Cardinality(CORE_CATEGORIES),
                         onepiece |-> onepiece_count,
                         missing |-> missing,
                         event_types |-> Cardinality(event_coverage)],
                        factors)

\* bottoms without the onepieces
RawBottoms(ctx) == category_counts(ctx, "bottom")

\* tops without the onepieces
RawTops(ctx) == category_counts(ctx, "top")

\* tops / bottoms of the balance calculation: a onepiece counts on both sides
balance_tops(ctx) == category_counts(ctx, "top") + category_counts(ctx, "onepiece")
balance_bottoms(ctx) == category_counts(ctx, "bottom") + category_counts(ctx, "onepiece")

BalanceScore(ctx) ==
    IF items_count(ctx) < 5
    THEN DimensionResult(RInt(50), Rat(3, 10), [text |-> "Need more items to assess balance"],
                         <<"insufficient_items">>)
    ELSE
    LET onepiece_count == category_counts(ctx, "onepiece")
        tops == balance_tops(ctx)
        bottoms == balance_bottoms(ctx)
        outerwear == category_counts(ctx, "outerwear")
        footwear == category_counts(ctx, "footwear")
        tb_score ==
            IF bottoms > 0
            THEN LET tb_ratio == Rat(tops, bottoms)
                 IN  IF RLe(RInt(1), tb_ratio) /\ RLe(tb_ratio, RInt(2)) THEN 40
                     ELSE IF RLe(Rat(1, 2), tb_ratio) /\ RLe(tb_ratio, RInt(3)) THEN 25
                     ELSE 10
            ELSE IF tops > 0 THEN 5 ELSE 0
        ow_ratio == Rat(outerwear, items_count(ctx))
        ow_score ==
            IF RLe(Rat(10, 100), ow_ratio) /\ RLe(ow_ratio, Rat(25, 100)) THEN 30
            ELSE IF RLe(Rat(5, 100), ow_ratio) /\ RLe(ow_ratio, Rat(35, 100)) THEN 20
            ELSE IF outerwear > 0 THEN 10
            ELSE 5
        fw_ratio == Rat(footwear, items_count(ctx))
        fw_score ==
            IF RLe(Rat(8, 100), fw_ratio) /\ RLe(fw_ratio, Rat(20, 100)) THEN 30
            ELSE IF footwear > 0 THEN 15
            ELSE 5
        total == _clamp_score(RInt(tb_score + ow_score + fw_score))
        factors ==
            IF bottoms > 0 /\ (RLt(RInt(3), Rat(tops, bottoms))
                               \/ RLt(Rat(tops, bottoms), Rat(1, 2)))
            THEN <<"imbalanced_tops_bottoms">> ELSE <<>>
    IN  DimensionResult(total, Rat(85, 100),
                        [text |-> "Tops:Bottoms ratio is",
                         tops |-> tops,
                         bottoms |-> bottoms,
                         onepiece |-> onepiece_count,
                         outerwear |-> outerwear,
                         footwear |-> footwear],
                        factors)

-----------------------------------------------------------------------------
(* DiversityScorer.score                                                   *)

\* A diversity dict maps each of the four keys to "on" / "off", or leaves it "unset"
\* (key absent from the stored JSON).
AttrKeys == {"colors", "patterns", "seasons", "styles"}

\* config.get(key, default)
ConfigGet(config, key, default) ==
    IF config[key] = "unset" THEN default ELSE config[key] = "on"

DiversityScore(ctx) ==
    IF items_count(ctx) < 3
    THEN DimensionResult(RInt(50), Rat(3, 10), [text |-> "Need more items to assess diversity"],
                         <<"insufficient_items">>)
    ELSE
    LET config == ctx.diversity_config
        enabled_attrs == {k \in AttrKeys : config[k] = "on"}
    IN  IF enabled_attrs = {}
        THEN DimensionResult(RInt(50), Rat(8, 10),
                             [text |-> "No diversity attributes enabled in preferences"],
                             <<"no_attributes_enabled">>)
        ELSE
        LET colors == {ctx.items[i].base_color : i \in 1..Len(ctx.items)} \ {None}
            patterns == {ctx.items[i].pattern : i \in 1..Len(ctx.items)} \ {None}
            all_seasons == AllTags(ctx, "season_tags")
            all_styles == AllTags(ctx, "style_tags")
            sub(values, target) ==
                RMul(RMin(Rat(Cardinality(values), target), RInt(1)), RInt(100))
            use_colors == ConfigGet(config, "colors", FALSE) /\ colors # {}
            use_patterns == ConfigGet(config, "patterns", TRUE) /\ patterns # {}
            use_seasons == ConfigGet(config, "seasons", TRUE) /\ all_seasons # {}
            use_styles == ConfigGet(config, "styles", TRUE) /\ all_styles # {}
            scores_ == (IF use_colors THEN <<sub(colors, 8)>> ELSE <<>>)
                       \o (IF use_patterns THEN <<sub(patterns, 4)>> ELSE <<>>)
                       \o (IF use_seasons THEN <<sub(all_seasons, 4)>> ELSE <<>>)
                       \o (IF use_styles THEN <<sub(all_styles, 5)>> ELSE <<>>)
            factors == (IF use_colors /\ Cardinality(colors) < 4
                        THEN <<"low_color_diversity">> ELSE <<>>)
                       \o (IF use_styles /\ Cardinality(all_styles) < 3
                           THEN <<"low_style_diversity">> ELSE <<>>)
        IN  IF scores_ = <<>>
            THEN DimensionResult(RInt(50), Rat(4, 10),
                                 [text |-> "Not enough attribute data"],
                                 <<"missing_attribute_data">>)
            ELSE DimensionResult(_clamp_score(RMul(RSum(scores_), Rat(1, Len(scores_)))),
                                 Rat(7, 10),
                                 [text |-> "Diversity across enabled attributes",
                                  enabled |-> enabled_attrs],
                                 factors)

-----------------------------------------------------------------------------
(* SuggestionGenerator                                                     *)

Has(factors, f) == \E i \in 1..Len(factors) : factors[i] = f

SuggestionData(type, dimension, priority, title, category, n, confidence, impact, related) ==
    [suggestion_type |-> type, dimension |-> dimension, priority |-> priority,
     title |-> title, category |-> category, title_n |-> n,
     confidence |-> confidence, expected_impact |-> impact,
     related_item_ids |-> related]

\* [str(item.id) for item in ctx.items if str(item.id) not in ids]
ItemsNotIn(ctx, ids) ==
    LET rest == SelectSeq(ctx.items, LAMBDA it : it.id \notin ids)
    IN  [i \in 1..Len(rest) |-> rest[i].id]

_versatility_suggestions(result, weight, ctx) ==
    (IF Has(result.contributing_factors, "no_outfits")
     THEN <<SuggestionData("create_outfit", "versatility", 1, "Create your first outfit",
                           None, 0, Rat(95, 100), RMul(weight, RInt(20)), <<>>)>>
     ELSE <<>>)
    \o
    (IF Has(result.contributing_factors, "many_unused_items")
     THEN LET used_items == SeqToSet(OutfitRefs(ctx.outfits))
              unused == ItemsNotIn(ctx, used_items)
          IN  IF unused # <<>>
              THEN <<SuggestionData("use_in_outfit", "versatility", 2, "Style n unused items",
                                    None, Len(unused), Rat(9, 10), RMul(weight, RInt(15)),
                                    Prefix(unused, MaxRelated))>>
              ELSE <<>>
     ELSE <<>>)

_utilization_suggestions(result, weight, ctx) ==
    (IF Has(result.contributing_factors, "no_wear_logs")
     THEN <<SuggestionData("log_wear", "utilization", 1, "Start logging what you wear",
                           None, 0, Rat(95, 100), RMul(weight, RInt(25)), <<>>)>>
     ELSE <<>>)
    \o
    (IF Has(result.contributing_factors, "many_unworn_items")
     THEN LET worn_items == WornIds(ctx)
              never_worn == ItemsNotIn(ctx, worn_items)
          IN  IF never_worn # <<>>
              THEN <<SuggestionData("wear_more", "utilization", 2, "Wear n neglected items",
                                    None, Len(never_worn), Rat(85, 100),
                                    RMul(weight, RInt(15)),
                                    Prefix(never_worn, MaxRelated))>>
              ELSE <<>>
     ELSE <<>>)

\* factor.startswith("missing_") and factor.replace("missing_", "")
IsMissingFactor(f) ==
    f \in {"missing_top", "missing_bottom", "missing_footwear", "missing_outerwear"}
MissingCategory(f) ==
    CASE f = "missing_top" -> "top"
      [] f = "missing_bottom" -> "bottom"
      [] f = "missing_footwear" -> "footwear"
      [] f = "missing_outerwear" -> "outerwear"

RECURSIVE MissingSuggestions(_, _)
MissingSuggestions(factors, weight) ==
    IF factors = <<>> THEN <<>>
    ELSE (IF IsMissingFactor(Head(factors))
          THEN <<SuggestionData("add_item", "completeness", 1, "Add category to your wardrobe",
                                MissingCategory(Head(factors)), 0, Rat(95, 100),
                                RMul(weight, RInt(12)), <<>>)>>
          ELSE <<>>)
         \o MissingSuggestions(Tail(factors), weight)

_completeness_suggestions(result, weight, ctx) ==
    MissingSuggestions(result.contributing_factors, weight)
    \o
    (IF Has(result.contributing_factors, "empty_wardrobe")
     THEN <<SuggestionData("add_item", "completeness", 1, "Add items to your wardrobe",
                           None, 0, Rat(95, 100), RMul(weight, RInt(25)), <<>>)>>
     ELSE <<>>)

\* the two titles the wrong way round: the side in excess is recommended
BalanceSuggestionsSwapped(result, weight, ctx) ==
    IF Has(result.contributing_factors, "imbalanced_tops_bottoms")
    THEN LET onepiece_count == category_counts(ctx, "onepiece")
             tops == category_counts(ctx, "top") + onepiece_count
             bottoms == category_counts(ctx, "bottom") + onepiece_count
         IN  IF tops > bottoms * 2
             THEN <<SuggestionData("add_item", "balance", 2, "Add more tops",
                                   None, 0, Rat(9, 10), RMul(weight, RInt(10)), <<>>)>>
             ELSE IF bottoms > tops * 2
             THEN <<SuggestionData("add_item", "balance", 2, "Add more bottoms",
                                   None, 0, Rat(9, 10), RMul(weight, RInt(10)), <<>>)>>
             ELSE <<>>
    ELSE <<>>

_balance_suggestions(result, weight, ctx) ==
    IF Has(result.contributing_factors, "imbalanced_tops_bottoms")
    THEN LET onepiece_count == category_counts(ctx, "onepiece")
             tops == category_counts(ctx, "top") + onepiece_count
             bottoms == category_counts(ctx, "bottom") + onepiece_count
         IN  IF tops > bottoms * 2
             THEN <<SuggestionData("add_item", "balance", 2, "Add more bottoms",
                                   None, 0, Rat(9, 10), RMul(weight, RInt(10)), <<>>)>>
             ELSE IF bottoms > tops * 2
             THEN <<SuggestionData("add_item", "balance", 2, "Add more tops",
                                   None, 0, Rat(9, 10), RMul(weight, RInt(10)), <<>>)>>
             ELSE <<>>
    ELSE <<>>

_diversity_suggestions(result, weight, ctx) ==
    (IF Has(result.contributing_factors, "low_color_diversity")
     THEN <<SuggestionData("add_item", "diversity", 3, "Add more color variety",
                           None, 0, Rat(8, 10), RMul(weight, RInt(8)), <<>>)>>
     ELSE <<>>)
    \o
    (IF Has(result.contributing_factors, "low_style_diversity")
     THEN <<SuggestionData("add_item", "diversity", 3, "Explore different styles",
                           None, 0, Rat(8, 10), RMul(weight, RInt(8)), <<>>)>>
     ELSE <<>>)

_suggestions_for_dimension(dim_name, result, weight, ctx) ==
    CASE dim_name = "versatility" -> _versatility_suggestions(result, weight, ctx)
      [] dim_name = "utilization" -> _utilization_suggestions(result, weight, ctx)
      [] dim_name = "completeness" -> _completeness_suggestions(result, weight, ctx)
      [] dim_name = "balance" -> _balance_suggestions(result, weight, ctx)
      [] dim_name = "diversity" -> _diversity_suggestions(result, weight, ctx)
      [] OTHER -> <<>>

\* sorted(dimension_results.items(), key=score): stable insertion into an ascending list
RECURSIVE InsertDim(_, _, _)
InsertDim(d, sorted, results) ==
    IF sorted = <<>> THEN <<d>>
    ELSE IF RLt(results[d].score, results[Head(sorted)].score)
         THEN <<d>> \o sorted
         ELSE <<Head(sorted)>> \o InsertDim(d, Tail(sorted), results)

RECURSIVE SortDims(_, _)
SortDims(dims, results) ==
    IF dims = <<>> THEN <<>>
    ELSE InsertDim(dims[Len(dims)], SortDims(SubSeq(dims, 1, Len(dims) - 1), results),
                   results)

\* a sort on priority alone that puts the smaller impact first
KeyLtImpactAscending(a, b) ==
    \/ a.priority < b.priority
    \/ a.priority = b.priority /\ RLe(a.expected_impact, b.expected_impact)

\* key=lambda s: (s.priority, -(s.expected_impact or 0))
KeyLt(a, b) ==
    \/ a.priority < b.priority
    \/ a.priority = b.priority /\ RLt(b.expected_impact, a.expected_impact)

RECURSIVE InsertSuggestion(_, _)
InsertSuggestion(x, sorted) ==
    IF sorted = <<>> THEN <<x>>
    ELSE IF KeyLt(x, Head(sorted))
         THEN <<x>> \o sorted
         ELSE <<Head(sorted)>> \o InsertSuggestion(x, Tail(sorted))

\* list.sort: stable
RECURSIVE SortSuggestions(_)
SortSuggestions(sugs) ==
    IF sugs = <<>> THEN <<>>
    ELSE InsertSuggestion(sugs[Len(sugs)], SortSuggestions(SubSeq(sugs, 1, Len(sugs) - 1)))

\* no dimension is skipped
NeverSkipped(result) == TRUE

\* the dimensions that get suggestions: result.score >= 80 is skipped
NeedsSuggestions(result) == RLt(result.score, RInt(HighScore))

RECURSIVE CollectSuggestions(_, _, _)
CollectSuggestions(sorted_dims, results, ctx) ==
    IF sorted_dims = <<>> THEN <<>>
    ELSE LET d == Head(sorted_dims)
         IN  (IF NeedsSuggestions(results[d])
              THEN _suggestions_for_dimension(d, results[d], Weight[d], ctx)
              ELSE <<>>)
             \o CollectSuggestions(Tail(sorted_dims), results, ctx)

\* SuggestionGenerator.generate
generate(ctx, results) ==
    Prefix(SortSuggestions(CollectSuggestions(SortDims(Dimensions, results), results, ctx)),
           MaxSuggestions)

-----------------------------------------------------------------------------
(* QualityEngine.compute_score: the computation up to the rows it builds.  *)

\* prefs.get("diversity", {defaults})
ResolveDiversity(u) ==
    IF prefs[u].has_diversity THEN prefs[u].diversity ELSE DiversityDefault

\* for scorer, weight in self.scorers: result = scorer.score(ctx)
dimension_results(ctx, clock, missing) ==
    [versatility |-> VersatilityScore(ctx),
     utilization |-> UtilizationScore(ctx, clock),
     completeness |-> CompletenessScore(ctx, missing),
     balance |-> BalanceScore(ctx),
     diversity |-> DiversityScore(ctx)]

\* a sum that forgets the weights
UnweightedSum(results, field) ==
    RSum([i \in 1..Len(Dimensions) |-> results[Dimensions[i]][field]])

\* total_score = 0.0; total_score += result.score * weight   (same for confidence)
Accumulate(results, field) ==
    RSum([i \in 1..Len(Dimensions) |->
            RMul(results[Dimensions[i]][field], Weight[Dimensions[i]])])

\* WardrobeQualityScore(...)
ScoreRecord(id, ctx, results, clock) ==
    [id |-> id,
     user_id |-> ctx.user_id,
     total_score |-> Accumulate(results, "score"),
     versatility_score |-> results.versatility.score,
     utilization_score |-> results.utilization.score,
     completeness_score |-> results.completeness.score,
     balance_score |-> results.balance.score,
     diversity_score |-> results.diversity.score,
     confidence |-> Accumulate(results, "confidence"),
     explanations |-> [d \in SeqToSet(Dimensions) |->
                         [why |-> results[d].why,
                          confidence |-> results[d].confidence,
                          contributing_factors |-> results[d].contributing_factors]],
     items_count |-> items_count(ctx),
     outfits_count |-> outfits_count(ctx),
     wear_logs_count |-> wear_logs_count(ctx),
     diversity_config_snapshot |-> ctx.diversity_config,
     computed_at |-> clock]

\* WardrobeQualitySuggestion(...) for the k-th generated suggestion
SuggestionRecord(id, score_id, u, sug, clock) ==
    [id |-> id, user_id |-> u, score_id |-> score_id,
     suggestion_type |-> sug.suggestion_type, dimension |-> sug.dimension,
     priority |-> sug.priority, title |-> sug.title, category |-> sug.category,
     title_n |-> sug.title_n, confidence |-> sug.confidence,
     expected_impact |-> sug.expected_impact,
     related_item_ids |-> sug.related_item_ids,
     status |-> "pending", created_at |-> clock]

SuggestionRecords(first_id, score_id, u, batch, clock) ==
    [k \in 1..Len(batch) |-> SuggestionRecord(first_id + k - 1, score_id, u, batch[k], clock)]

-----------------------------------------------------------------------------
(* The stored data explored: wardrobes of user 1 drawn from small palettes. *)

Users == 1..NumUsers

Today == 100           \* the clock at Init
OldDay == 60           \* a wear more than NeglectDays before Today
RecentDay == 90        \* a wear within NeglectDays of Today

\* (category, kind): the API stores the kind and leaves category NULL unless given
Palette == <<[category |-> None, kind |-> "top"],
             [category |-> None, kind |-> "bottom"],
             [category |-> None, kind |-> "footwear"],
             [category |-> None, kind |-> "outerwear"],
             [category |-> None, kind |-> "onepiece"],
             [category |-> None, kind |-> "accessory"],
             [category |-> "onepiece", kind |-> "top"]>>

Looks == <<[base_color |-> None, pattern |-> None, style_tags |-> {},
            season_tags |-> {}, event_tags |-> {}],
           [base_color |-> "red", pattern |-> "solid", style_tags |-> {"casual"},
            season_tags |-> {"summer"}, event_tags |-> {"casual"}],
           [base_color |-> "blue", pattern |-> "striped", style_tags |-> {"Casual", "formal"},
            season_tags |-> {"Summer", "winter"}, event_tags |-> {"office"}],
           [base_color |-> "red", pattern |-> "floral",
            style_tags |-> {"sporty", "boho", "street"},
            season_tags |-> {"spring", "fall"}, event_tags |-> {"formal", "party"}],
           [base_color |-> "green", pattern |-> "plaid", style_tags |-> {},
            season_tags |-> {"winter", "spring", "summer", "fall"},
            event_tags |-> {"casual", "office", "formal", "party", "travel"}]>>

MkItem(id, u, status, pk, look) ==
    [id |-> id, user_id |-> u, status |-> status,
     category |-> pk.category, kind |-> pk.kind,
     base_color |-> look.base_color, pattern |-> look.pattern,
     style_tags |-> look.style_tags, season_tags |-> look.season_tags,
     event_tags |-> look.event_tags]

\* the i-th item of a basic wardrobe: top, bottom, footwear, outerwear, top, ...
Basic(i) == Palette[((i - 1) % 4) + 1]

\* n plain active items of user 1 followed by `extra` archived ones
PlainItems(n, extra) ==
    [i \in 1..(n + extra) |->
        MkItem(i, 1, IF i <= n THEN "active" ELSE "archived", Basic(i), Looks[1])]

\* non-decreasing sequences of length n over lo..hi (one per multiset)
RECURSIVE NonDecSeqs(_, _, _)
NonDecSeqs(n, lo, hi) ==
    IF n = 0 THEN {<<>>}
    ELSE UNION {{<<v>> \o t : t \in NonDecSeqs(n - 1, v, hi)} : v \in lo..hi}

\* sequences of length 0..n over the set S
RECURSIVE SeqsUpTo(_, _)
SeqsUpTo(S, n) ==
    IF n = 0 THEN {<<>>}
    ELSE {<<>>} \cup UNION {{<<x>> \o t : x \in S} : t \in SeqsUpTo(S, n - 1)}

\* quality_preferences = NULL; a key that is absent is has_diversity = FALSE or Null
NoPrefs == [has_diversity |-> FALSE, diversity |-> DiversityDefault,
            refresh_interval_days |-> Null, history_retention_days |-> Null]

\* stored "diversity" dicts: every complete one, and some that omit keys
DivConfigs ==
    [AttrKeys -> {"on", "off"}]
    \cup {[k \in AttrKeys |-> IF k = "colors" THEN "on" ELSE "unset"],
          [k \in AttrKeys |-> IF k = "colors" THEN "off" ELSE "unset"],
          [k \in AttrKeys |-> IF k = "patterns" THEN "off" ELSE "unset"]}

PrefChoices ==
    {NoPrefs} \cup {[NoPrefs EXCEPT !.has_diversity = TRUE, !.diversity = c] : c \in DivConfigs}

\* two client connections, each serving one request at a time
Clients == {"a", "b"}
ReqIdle == [pc |-> "idle"]

SessIdle == [state |-> "idle", new |-> <<>>, written |-> <<>>]
NoResult == [computed |-> FALSE]
LoopIdle == [pc |-> "idle", todo |-> <<>>, rec |-> NoResult]

\* everything but the stored wardrobe data
InitRest ==
    /\ now = Today
    /\ scores = <<>>
    /\ suggestions = <<>>
    /\ last = NoResult
    /\ sess = SessIdle
    /\ loop = LoopIdle
    /\ next_id = 1
    /\ generated = <<>>
    /\ reqs = [c \in Clients |-> ReqIdle]

\* wardrobes that vary the categories
InitCategories ==
    /\ \E n \in 0..MaxItems : \E cs \in NonDecSeqs(n, 1, Len(Palette)) : \E lk \in {1, 5} :
          items = [i \in 1..n |-> MkItem(i, 1, "active", Palette[cs[i]], Looks[lk])]
    /\ outfits = <<>>
    /\ wear_logs = <<>>
    /\ owl_items = {}
    /\ item_wear_logs = <<>>
    /\ prefs = [u \in Users |-> NoPrefs]

\* wardrobes that vary colours, patterns and tags, under every preference choice
InitLooks ==
    /\ \E n \in 3..MaxLookItems : \E ls \in NonDecSeqs(n, 1, Len(Looks)) :
          items = [i \in 1..n |-> MkItem(i, 1, "active", Basic(i), Looks[ls[i]])]
    /\ outfits = <<>>
    /\ wear_logs = <<>>
    /\ owl_items = {}
    /\ item_wear_logs = <<>>
    /\ \E pc \in PrefChoices : prefs = [u \in Users |-> pc]

\* outfit_item lists: at least two distinct items; archived items stay referenced
OutfitShapes(n) ==
    {<<1, 2>>, <<1, 3>>, [i \in 1..n |-> i], [i \in 1..(n + 1) |-> i], <<n + 1, n + 2>>}

InitOutfits ==
    /\ \E n \in {5, MaxItems} :
          /\ items = PlainItems(n, 2)
          /\ \E os \in SeqsUpTo(OutfitShapes(n), MaxOutfits) :
                outfits = [k \in 1..Len(os) |-> [id |-> k, user_id |-> 1, items |-> os[k]]]
    /\ wear_logs = <<>>
    /\ owl_items = {}
    /\ item_wear_logs = <<>>
    /\ prefs = [u \in Users |-> NoPrefs]

\* multisets of at most n indices into a sequence of k shapes
ShapeChoices(k, n) == UNION {NonDecSeqs(m, 1, k) : m \in 0..n}

\* an outfit wear log: when it was worn, whether it was soft-deleted since, and
\* whether logging it also wrote item wear rows that point back to it
WearShapes ==
    <<[worn_at |-> OldDay, deleted |-> FALSE, linked |-> FALSE],
      [worn_at |-> OldDay, deleted |-> TRUE, linked |-> FALSE],
      [worn_at |-> RecentDay, deleted |-> FALSE, linked |-> FALSE],
      [worn_at |-> RecentDay, deleted |-> FALSE, linked |-> TRUE],
      [worn_at |-> RecentDay, deleted |-> TRUE, linked |-> TRUE]>>

\* a standalone item wear log of item 1, the last active item (0) or the archived one (-1)
ItemLogShapes ==
    <<[item |-> 1, worn_at |-> OldDay, created_at |-> OldDay],
      [item |-> 1, worn_at |-> RecentDay, created_at |-> RecentDay],
      [item |-> 0, worn_at |-> RecentDay, created_at |-> RecentDay],
      [item |-> -1, worn_at |-> RecentDay, created_at |-> RecentDay],
      [item |-> 1, worn_at |-> Null, created_at |-> OldDay]>>

WornOutfit == <<1, 2, 3>>

\* the item wear rows written together with the outfit wear logs ws (linked ones only)
RECURSIVE LinkedRows(_, _)
LinkedRows(ws, k) ==
    IF k > Len(ws) THEN <<>>
    ELSE (IF WearShapes[ws[k]].linked
          THEN [i \in 1..Len(WornOutfit) |->
                  [user_id |-> 1, item_id |-> WornOutfit[i],
                   worn_at |-> WearShapes[ws[k]].worn_at,
                   created_at |-> WearShapes[ws[k]].worn_at,
                   source_outfit_log_id |-> k, deleted_at |-> Null]]
          ELSE <<>>)
         \o LinkedRows(ws, k + 1)

StandaloneRows(n, ls) ==
    [j \in 1..Len(ls) |->
        LET sh == ItemLogShapes[ls[j]]
        IN  [user_id |-> 1,
             item_id |-> IF sh.item = 0 THEN n ELSE IF sh.item = -1 THEN n + 1 ELSE sh.item,
             worn_at |-> sh.worn_at, created_at |-> sh.created_at,
             source_outfit_log_id |-> Null, deleted_at |-> Null]]

\* wardrobes that vary the wear history of one outfit and of single items
WearData(n, ws, ls) ==
    /\ items = PlainItems(n, 1)
    /\ outfits = <<[id |-> 1, user_id |-> 1, items |-> WornOutfit]>>
    /\ wear_logs = [k \in 1..Len(ws) |->
                      [id |-> k, user_id |-> 1, outfit_id |-> 1,
                       worn_at |-> WearShapes[ws[k]].worn_at,
                       created_at |-> WearShapes[ws[k]].worn_at,
                       deleted_at |-> IF WearShapes[ws[k]].deleted THEN Today ELSE Null]]
    /\ owl_items = {[wear_log_id |-> k, item_id |-> WornOutfit[i]] :
                      k \in 1..Len(ws), i \in 1..Len(WornOutfit)}
    /\ item_wear_logs = LinkedRows(ws, 1) \o StandaloneRows(n, ls)
    /\ prefs = [u \in Users |-> NoPrefs]

InitWear ==
    \E n \in {3, MaxItems} :
        \E ws \in ShapeChoices(Len(WearShapes), MaxWearLogs) :
            \E ls \in ShapeChoices(Len(ItemLogShapes), MaxItemLogs) :
                WearData(n, ws, ls)

\* lopsided wardrobes: m items of one side, one of the other side and one footwear
InitImbalanced ==
    /\ \E m \in 3..ManyTops : \E major \in {1, 2} :
          items = [i \in 1..(m + 2) |->
                     MkItem(i, 1, "active",
                            IF i <= m THEN Palette[major]
                            ELSE IF i = m + 1 THEN Palette[3 - major]
                            ELSE Palette[3],
                            Looks[1])]
    /\ outfits = <<>>
    /\ wear_logs = <<>>
    /\ owl_items = {}
    /\ item_wear_logs = <<>>
    /\ prefs = [u \in Users |-> NoPrefs]

Init ==
    InitRest /\ (InitCategories \/ InitLooks \/ InitOutfits \/ InitWear \/ InitImbalanced)

-----------------------------------------------------------------------------
(* compute_score as one step: what a call that meets no failure does.      *)

ComputeScore(u) ==
    LET ctx == _load_context(u, ResolveDiversity(u)) IN
    \E missing \in OrdersOf(MissingCore(ctx)) :
        LET results == dimension_results(ctx, now, missing)
            batch == generate(ctx, results)
            score_record == ScoreRecord(next_id, ctx, results, now)
        IN  /\ scores' = Append(scores, score_record)
            /\ suggestions' = suggestions
                              \o SuggestionRecords(next_id + 1, next_id, u, batch, now)
            /\ next_id' = next_id + 1 + Len(batch)
            /\ last' = [computed |-> TRUE, user_id |-> u, ctx |-> ctx,
                        results |-> results, batch |-> batch,
                        score_record |-> score_record]
            /\ UNCHANGED <<dataVars, now, sess, loop, generated, reqs>>

\* one refresh of user 1's score over the stored wardrobe
Refresh == scores = <<>> /\ ComputeScore(1)

Next == Refresh

Spec == Init /\ [][Next]_vars

-----------------------------------------------------------------------------
(* Repeated computes over a stored wardrobe that nothing changes, while    *)
(* the wall clock that UtilizationScorer reads moves on.                   *)

InitClock ==
    /\ InitRest
    /\ \E n \in {3, MaxItems} :
          \E ws \in ShapeChoices(Len(WearShapes), MaxClockLogs) :
              \E ls \in ShapeChoices(Len(ItemLogShapes), MaxClockLogs) :
                  WearData(n, ws, ls)

\* datetime.now() moves on by NeglectDays while no task runs
Tick ==
    /\ loop.pc = "idle"
    /\ now < Today + MaxClockSteps * NeglectDays
    /\ now' = now + NeglectDays
    /\ UNCHANGED <<dataVars, scores, suggestions, last, sess, loop, next_id, generated, reqs>>

\* one more compute_score call for user 1
Recompute == Len(scores) < MaxRecomputes /\ ComputeScore(1)

NextClock == Tick \/ Recompute

SpecClock == InitClock /\ [][NextClock]_vars

-----------------------------------------------------------------------------
(* A wardrobe that grows from nothing: the summary is refreshed first and   *)
(* after every item that is added, as the accuracy benchmarks do.          *)

\* what POST /v1/items may add: a top with event tags, or another core kind without tags
AddChoices ==
    {[pk |-> Palette[1], look |-> Looks[4]]}
    \cup {[pk |-> Palette[k], look |-> Looks[1]] : k \in 2..4}

InitGrow ==
    /\ InitRest
    /\ items = <<>>
    /\ outfits = <<>>
    /\ wear_logs = <<>>
    /\ owl_items = {}
    /\ item_wear_logs = <<>>
    /\ prefs = [u \in Users |-> NoPrefs]

\* create_item: a new active item of user 1
AddItem ==
    /\ Len(scores) = Len(items) + 1
    /\ Len(items) < MaxAdds
    /\ \E c \in AddChoices :
          items' = Append(items, MkItem(Len(items) + 1, 1, "active", c.pk, c.look))
    /\ UNCHANGED <<outfits, wear_logs, owl_items, item_wear_logs, prefs, now, scores,
                   suggestions, last, sess, loop, next_id, generated, reqs>>

\* GET /v1/quality/summary?refresh=true after the change
RefreshGrown == Len(scores) = Len(items) /\ ComputeScore(1)

NextGrow == AddItem \/ RefreshGrown

SpecGrow == InitGrow /\ [][NextGrow]_vars

-----------------------------------------------------------------------------
(* compute_score step by step inside refresh_all_quality_scores: one       *)
(* session for the whole user loop, every write able to fail.              *)
(*                                                                         *)
(* The session holds the objects added but not yet flushed (new) and the   *)
(* rows already sent inside the open transaction (written); scores and     *)
(* suggestions hold committed rows only.                                   *)

RefreshIntervalDefault == 7
RetentionDefault == 180
MinRetention == 30

Store == [sess |-> sess, scores |-> scores, suggestions |-> suggestions]

RowsOf(rows, table) ==
    LET sel == SelectSeq(rows, LAMBDA r : r.table = table)
    IN  [i \in 1..Len(sel) |-> sel[i].row]

\* session.add(record)
add(st, table, row) ==
    [st EXCEPT !.sess.new = Append(@, [table |-> table, row |-> row])]

\* COMMIT: the rows written in the transaction become durable
persist_written(st) ==
    [sess |-> SessIdle,
     scores |-> st.scores \o RowsOf(st.sess.written, "score"),
     suggestions |-> st.suggestions \o RowsOf(st.sess.written, "suggestion")]

\* a flush that also commits
CommitsOnFlush(st) ==
    persist_written([st EXCEPT !.sess.written = @ \o st.sess.new, !.sess.new = <<>>])

\* session.flush(): INSERT the new objects inside the open transaction
flush(st) ==
    [st EXCEPT !.sess = [state |-> "active", new |-> <<>>,
                         written |-> st.sess.written \o st.sess.new]]

\* session.commit(): flush what is new, then COMMIT
commit(st) == persist_written(flush(st))

\* a failing flush() called on its own: the transaction is rolled back, the new
\* objects are expunged and the session refuses work until rollback() is called
flush_failed(st) ==
    [st EXCEPT !.sess = [state |-> "inactive", new |-> <<>>, written |-> <<>>]]

\* a failing commit(), or leaving the session block: everything not committed is gone
rollback(st) == [st EXCEPT !.sess = SessIdle]

\* ON DELETE of the score rows ids, without the cascade to their suggestions
DeleteScoresOnly(st, ids) ==
    [st EXCEPT !.scores = SelectSeq(@, LAMBDA r : r.id \notin ids)]

\* DELETE of the score rows ids; suggestion.score_id is ON DELETE CASCADE
DeleteScores(st, ids) ==
    [st EXCEPT !.scores = SelectSeq(@, LAMBDA r : r.id \notin ids),
               !.suggestions = SelectSeq(@, LAMBDA r : r.score_id \notin ids)]

SetStore(st) ==
    /\ sess' = st.sess
    /\ scores' = st.scores
    /\ suggestions' = st.suggestions

\* get_latest_score: the rows of u with the greatest computed_at
get_latest_score(u) ==
    {r \in SeqToSet(scores) :
        /\ r.user_id = u
        /\ \A q \in SeqToSet(scores) : q.user_id = u => q.computed_at <= r.computed_at}

interval_days(u) ==
    IF prefs[u].refresh_interval_days # Null THEN prefs[u].refresh_interval_days
    ELSE RefreshIntervalDefault

retention_days(u) ==
    IF prefs[u].history_retention_days # Null THEN prefs[u].history_retention_days
    ELSE RetentionDefault

\* the wardrobes of all users: item i belongs to user 1 + (i - 1) % NumUsers
InitPersist ==
    /\ InitRest
    /\ \E n \in {0, 3, MaxItems} :
          items = [i \in 1..n |->
                     MkItem(i, 1 + ((i - 1) % NumUsers), "active", Basic(i), Looks[1])]
    /\ outfits = <<>>
    /\ wear_logs = <<>>
    /\ owl_items = {}
    /\ item_wear_logs = <<>>
    /\ \E keep \in {Null, MinRetention} :
          prefs = [u \in Users |-> [NoPrefs EXCEPT !.history_retention_days = keep]]

\* the task starts: async with Session(); select(User)
StartRefreshAll ==
    /\ loop.pc = "idle"
    /\ Len(generated) + NumUsers <= MaxComputes
    /\ loop' = [pc |-> "due", todo |-> [u \in 1..NumUsers |-> u], rec |-> NoResult]
    /\ sess' = SessIdle
    /\ UNCHANGED <<dataVars, now, scores, suggestions, last, next_id, generated, reqs>>

\* the for-body is left: on to the next user or, after the last one, out of the
\* session block, which closes the session
Leave(st) ==
    /\ IF Len(loop.todo) > 1
       THEN /\ loop' = [pc |-> "due", todo |-> Tail(loop.todo), rec |-> NoResult]
            /\ SetStore(st)
       ELSE /\ loop' = LoopIdle
            /\ SetStore(rollback(st))

\* get_latest_score and the due test; a session left inactive by a failed flush
\* raises here, outside the try, which ends the task
CheckDue ==
    /\ loop.pc = "due"
    /\ LET u == Head(loop.todo) IN
       IF sess.state = "inactive"
       THEN /\ loop' = LoopIdle
            /\ SetStore(rollback(Store))
       ELSE IF \E latest \in get_latest_score(u) : now < latest.computed_at + interval_days(u)
            THEN Leave(Store)
            ELSE /\ loop' = [loop EXCEPT !.pc = "compute"]
                 /\ UNCHANGED <<sess, scores, suggestions>>
    /\ UNCHANGED <<dataVars, now, last, next_id, generated, reqs>>

\* compute_score up to session.add(score_record); await session.flush()
AddScoreAndFlush ==
    /\ loop.pc = "compute"
    /\ LET u == Head(loop.todo)
           ctx == _load_context(u, ResolveDiversity(u))
       IN  \E missing \in OrdersOf(MissingCore(ctx)) : \E ok \in BOOLEAN :
             LET results == dimension_results(ctx, now, missing)
                 batch == generate(ctx, results)
                 score_record == ScoreRecord(next_id, ctx, results, now)
                 rec == [computed |-> TRUE, user_id |-> u, ctx |-> ctx,
                         results |-> results, batch |-> batch,
                         score_record |-> score_record]
                 added == add(Store, "score", score_record)
             IN  /\ last' = rec
                 /\ next_id' = next_id + 1 + Len(batch)
                 /\ generated' = Append(generated,
                                        [score_id |-> next_id,
                                         suggestion_ids |-> (next_id + 1)..(next_id + Len(batch))])
                 /\ IF ok
                    THEN /\ loop' = [loop EXCEPT !.pc = "commit", !.rec = rec]
                         /\ SetStore(flush(added))
                    ELSE Leave(flush_failed(added))
    /\ UNCHANGED <<dataVars, now, reqs>>

RECURSIVE AddAll(_, _, _)
AddAll(st, table, rows) ==
    IF rows = <<>> THEN st ELSE AddAll(add(st, table, Head(rows)), table, Tail(rows))

\* for sug in suggestions: session.add(record); then await session.commit()
AddSuggestionsAndCommit ==
    /\ loop.pc = "commit"
    /\ LET rec == loop.rec
           rows == SuggestionRecords(rec.score_record.id + 1, rec.score_record.id,
                                     rec.user_id, rec.batch, rec.score_record.computed_at)
           added == AddAll(Store, "suggestion", rows)
       IN  \E ok \in BOOLEAN :
             IF ok
             THEN /\ loop' = [loop EXCEPT !.pc = "refresh"]
                  /\ SetStore(commit(added))
             ELSE Leave(rollback(added))
    /\ UNCHANGED <<dataVars, now, last, next_id, generated, reqs>>

\* await session.refresh(score_record); on success the loop goes on to the cleanup
RefreshRecord ==
    /\ loop.pc = "refresh"
    /\ \E ok \in BOOLEAN :
          IF ok
          THEN /\ loop' = [loop EXCEPT !.pc = "cleanup"]
               /\ UNCHANGED <<sess, scores, suggestions>>
          ELSE Leave(rollback(Store))
    /\ UNCHANGED <<dataVars, now, last, next_id, generated, reqs>>

\* cleanup_old_scores: DELETE the rows of the user older than the cutoff, commit
CleanupOldScores ==
    /\ loop.pc = "cleanup"
    /\ LET u == Head(loop.todo)
           cutoff == now - retention_days(u)
           old == {r.id : r \in {q \in SeqToSet(scores) :
                                   q.user_id = u /\ q.computed_at < cutoff}}
       IN  \E ok \in BOOLEAN :
             IF ok THEN Leave(commit(DeleteScores(Store, old)))
             ELSE Leave(rollback(Store))
    /\ UNCHANGED <<dataVars, now, last, next_id, generated, reqs>>

NextPersist ==
    \/ Tick
    \/ StartRefreshAll
    \/ CheckDue
    \/ AddScoreAndFlush
    \/ AddSuggestionsAndCommit
    \/ RefreshRecord
    \/ CleanupOldScores

SpecPersist == InitPersist /\ [][NextPersist]_vars

-----------------------------------------------------------------------------
(* cleanup_quality_history: a second task, with a session of its own, that  *)
(* runs while refresh_all_quality_scores does. Its DELETE sees committed    *)
(* rows only and is committed at once.                                     *)

\* a DELETE that is not bounded by the cutoff: every committed score row of u
OldScoreIdsUnbounded(st, u, cutoff) ==
    {r.id : r \in {q \in SeqToSet(st.scores) : q.user_id = u}}

\* the ids of the committed score rows of u with computed_at < cutoff
OldScoreIds(st, u, cutoff) ==
    {r.id : r \in {q \in SeqToSet(st.scores) : q.user_id = u /\ q.computed_at < cutoff}}

\* cleanup_old_scores in a fresh session: the store afterwards and result.rowcount
cleanup_old_scores(st, u, retention, clock) ==
    LET cutoff == clock - retention
        old == OldScoreIds(st, u, cutoff)
    IN  [store |-> commit(DeleteScores(st, old)), rowcount |-> Cardinality(old)]

\* one round of the user loop of cleanup_quality_history (a failing statement ends
\* the task and changes nothing)
cleanup_quality_history ==
    \E u \in Users :
        LET done == cleanup_old_scores([Store EXCEPT !.sess = SessIdle], u,
                                       retention_days(u), now)
        IN  /\ scores' = done.store.scores
            /\ suggestions' = done.store.suggestions
            /\ last' = [computed |-> FALSE, op |-> "cleanup", user_id |-> u,
                        retention_days |-> retention_days(u),
                        cutoff |-> now - retention_days(u),
                        deleted |-> done.rowcount]
            /\ UNCHANGED <<dataVars, now, sess, loop, next_id, generated, reqs>>

\* every user owns one item of each core category and keeps MinRetention days
InitCleanup ==
    /\ InitRest
    /\ items = [i \in 1..(4 * NumUsers) |->
                  MkItem(i, 1 + ((i - 1) \div 4), "active", Basic(i), Looks[1])]
    /\ outfits = <<>>
    /\ wear_logs = <<>>
    /\ owl_items = {}
    /\ item_wear_logs = <<>>
    /\ prefs = [u \in Users |-> [NoPrefs EXCEPT !.history_retention_days = MinRetention]]

NextCleanup == NextPersist \/ cleanup_quality_history

SpecCleanup == InitCleanup /\ [][NextCleanup]_vars

-----------------------------------------------------------------------------
(* The quality endpoints. Every request runs in a session of its own; the   *)
(* transaction of a request starts with its first statement, and the       *)
(* server default now() of computed_at and created_at is the start time of *)
(* the inserting transaction. The requests of the two clients interleave   *)
(* between their statements.                                               *)

HistoryLimit == 10
ListLimit == 10

\* ORDER BY computed_at DESC over a set of score rows (rows with equal computed_at, which
\* the request actions below never create, are put in descending id order)
RECURSIVE NewestFirst(_)
NewestFirst(S) ==
    IF S = {} THEN <<>>
    ELSE LET m == CHOOSE r \in S :
                     \A q \in S : \/ q.computed_at < r.computed_at
                                  \/ (q.computed_at = r.computed_at /\ q.id <= r.id)
         IN  <<m>> \o NewestFirst(S \ {m})

\* get_score_history
get_score_history(u, limit) ==
    Prefix(NewestFirst({r \in SeqToSet(scores) : r.user_id = u}), limit)

\* no score row: the None of get_latest_score and of prev_score
NoScore == [id |-> Null]

\* trend and trend_delta of _score_to_out
Trend(score, prev) ==
    IF prev = NoScore THEN [trend |-> None, trend_delta |-> None]
    ELSE LET delta == RSub(score.total_score, prev.total_score)
         IN  [trend |-> IF RLt(RInt(2), delta) THEN "improving"
                        ELSE IF RLt(delta, RInt(-2)) THEN "declining"
                        ELSE "stable",
              trend_delta |-> delta]

_score_to_out(score, prev) ==
    LET t == Trend(score, prev)
    IN  [id |-> score.id, total_score |-> score.total_score,
         computed_at |-> score.computed_at,
         trend |-> t.trend, trend_delta |-> t.trend_delta]

\* a compute of user u whose transaction starts now gets a computed_at of its own
FreshInstant(u) ==
    /\ \A r \in SeqToSet(scores) : r.user_id = u => r.computed_at < now
    /\ \A d \in Clients : (reqs[d].pc = "compute" /\ reqs[d].user_id = u) => reqs[d].ts < now

\* a request that recomputes only when the user has no score, whatever refresh says
BeginRequestCached(c, op, u, refresh, status) ==
    /\ reqs[c].pc = "idle"
    /\ LET latest == get_latest_score(u)
           compute == latest = {}
           under_way == {d \in Clients : reqs[d].pc = "compute"}
       IN  /\ compute => /\ FreshInstant(u)
                         /\ Len(generated) + Cardinality(under_way) < MaxApiComputes
           /\ \E cur \in (IF latest = {} THEN {NoScore} ELSE latest) :
                 reqs' = [reqs EXCEPT ![c] =
                            [pc |-> IF compute THEN "compute"
                                    ELSE IF op = "summary" THEN "history" ELSE "list",
                             op |-> op, user_id |-> u, status |-> status,
                             ts |-> now, current |-> cur,
                             diversity_config |-> IF compute THEN ResolveDiversity(u)
                                                  ELSE DiversityDefault]]
    /\ UNCHANGED <<dataVars, now, scores, suggestions, last, sess, loop, next_id, generated>>

\* GET /quality/summary and GET /quality/suggestions up to get_latest_score: the
\* transaction starts, the user row (with the preferences a compute of this request
\* will use) and the latest score are read
BeginRequest(c, op, u, refresh, status) ==
    /\ reqs[c].pc = "idle"
    /\ LET latest == get_latest_score(u)
           compute == refresh \/ latest = {}
           under_way == {d \in Clients : reqs[d].pc = "compute"}
       IN  /\ compute => /\ FreshInstant(u)
                         /\ Len(generated) + Cardinality(under_way) < MaxApiComputes
           /\ \E cur \in (IF latest = {} THEN {NoScore} ELSE latest) :
                 reqs' = [reqs EXCEPT ![c] =
                            [pc |-> IF compute THEN "compute"
                                    ELSE IF op = "summary" THEN "history" ELSE "list",
                             op |-> op, user_id |-> u, status |-> status,
                             ts |-> now, current |-> cur,
                             diversity_config |-> IF compute THEN ResolveDiversity(u)
                                                  ELSE DiversityDefault]]
    /\ UNCHANGED <<dataVars, now, scores, suggestions, last, sess, loop, next_id, generated>>

GetSummary(C, U) == \E c \in C, u \in U, refresh \in BOOLEAN :
                        BeginRequest(c, "summary", u, refresh, "pending")

GetSuggestions(C, U) == \E c \in C, u \in U, status \in {"pending", "all"} :
                            BeginRequest(c, "suggestions", u, FALSE, status)

\* engine.compute_score inside the request: the rows are stamped with the start time of
\* the request's transaction and become durable at the commit
RequestCompute ==
    \E c \in Clients :
        /\ reqs[c].pc = "compute"
        /\ LET u == reqs[c].user_id
               ctx == _load_context(u, reqs[c].diversity_config)
           IN  \E missing \in OrdersOf(MissingCore(ctx)) :
                 LET results == dimension_results(ctx, now, missing)
                     batch == generate(ctx, results)
                     score_record == ScoreRecord(next_id, ctx, results, reqs[c].ts)
                 IN  /\ scores' = Append(scores, score_record)
                     /\ suggestions' =
                           suggestions
                           \o SuggestionRecords(next_id + 1, next_id, u, batch, reqs[c].ts)
                     /\ next_id' = next_id + 1 + Len(batch)
                     /\ generated' = Append(generated,
                                            [score_id |-> next_id,
                                             suggestion_ids |->
                                                (next_id + 1)..(next_id + Len(batch))])
                     /\ reqs' = [reqs EXCEPT ![c].pc = IF reqs[c].op = "summary"
                                                       THEN "history" ELSE "list",
                                             ![c].current = score_record]
        /\ UNCHANGED <<dataVars, now, last, sess, loop>>

\* get_quality_summary from the history read to the response
SummaryRespond ==
    \E c \in Clients :
        /\ reqs[c].pc = "history"
        /\ LET u == reqs[c].user_id
               history == get_score_history(u, HistoryLimit)
               prev_score == IF Len(history) > 1 THEN history[2] ELSE NoScore
           IN  last' = [computed |-> FALSE, op |-> "summary", user_id |-> u,
                        current |-> _score_to_out(reqs[c].current, prev_score),
                        prev_id |-> prev_score.id,
                        history |-> [k \in 1..(Len(history) - 1) |-> history[k + 1].id]]
        /\ reqs' = [reqs EXCEPT ![c] = ReqIdle]
        /\ UNCHANGED <<dataVars, now, scores, suggestions, sess, loop, next_id, generated>>

\* get_suggestions from the query to the response: the rows that match, as many of
\* them as the limit lets through
Listed(u, status) ==
    LET matching == {s \in SeqToSet(suggestions) :
                       /\ s.user_id = u
                       /\ status # "all" => s.status = status}
        n == Cardinality(matching)
    IN  [total_count |-> IF n < ListLimit THEN n ELSE ListLimit]

SuggestionsRespond ==
    \E c \in Clients :
        /\ reqs[c].pc = "list"
        /\ last' = [computed |-> FALSE, op |-> "suggestions",
                    total_count |-> Listed(reqs[c].user_id, reqs[c].status).total_count]
        /\ reqs' = [reqs EXCEPT ![c] = ReqIdle]
        /\ UNCHANGED <<dataVars, now, scores, suggestions, sess, loop, next_id, generated>>

\* the suggestion ids the update requests name: the first suggestion of every batch
\* built so far, and an id that no suggestion has
SuggestionTargets ==
    {g.score_id + 1 : g \in {h \in SeqToSet(generated) : h.suggestion_ids # {}}}
    \cup {next_id}

NotPending == {s.id : s \in {q \in SeqToSet(suggestions) : q.status # "pending"}}

\* an update that looks the row up by id and never compares its owner with the caller
update_suggestion_unowned ==
    \E caller \in Users, id \in SuggestionTargets, status \in {"dismissed", "completed"} :
        /\ Cardinality(NotPending \cup {id}) <= MaxUpdates
        /\ LET found == {s \in SeqToSet(suggestions) : s.id = id}
           IN  IF found = {}
               THEN /\ last' = [computed |-> FALSE, op |-> "update_suggestion",
                                user_id |-> caller, id |-> id, code |-> 404]
                    /\ UNCHANGED suggestions
               ELSE /\ suggestions' =
                          [k \in DOMAIN suggestions |->
                              IF suggestions[k].id = id
                              THEN [suggestions[k] EXCEPT !.status = status]
                              ELSE suggestions[k]]
                    /\ last' = [computed |-> FALSE, op |-> "update_suggestion",
                                user_id |-> caller, id |-> id, code |-> 200]
        /\ UNCHANGED <<dataVars, now, scores, sess, loop, next_id, generated, reqs>>

\* an update that raises the priority of the row along with its status
update_suggestion_reprioritised ==
    \E caller \in Users, id \in SuggestionTargets, status \in {"dismissed", "completed"} :
        /\ Cardinality(NotPending \cup {id}) <= MaxUpdates
        /\ LET found == {s \in SeqToSet(suggestions) : s.id = id}
           IN  IF found = {} \/ \E s \in found : s.user_id # caller
               THEN /\ last' = [computed |-> FALSE, op |-> "update_suggestion",
                                user_id |-> caller, id |-> id, code |-> 404]
                    /\ UNCHANGED suggestions
               ELSE /\ suggestions' =
                          [k \in DOMAIN suggestions |->
                              IF suggestions[k].id = id
                              THEN [suggestions[k] EXCEPT !.status = status,
                                                          !.priority = @ + 1]
                              ELSE suggestions[k]]
                    /\ last' = [computed |-> FALSE, op |-> "update_suggestion",
                                user_id |-> caller, id |-> id, code |-> 200]
        /\ UNCHANGED <<dataVars, now, scores, sess, loop, next_id, generated, reqs>>

\* PATCH /quality/suggestions/{suggestion_id}
update_suggestion ==
    \E caller \in Users, id \in SuggestionTargets, status \in {"dismissed", "completed"} :
        /\ Cardinality(NotPending \cup {id}) <= MaxUpdates
        /\ LET found == {s \in SeqToSet(suggestions) : s.id = id}
           IN  IF found = {} \/ \E s \in found : s.user_id # caller
               THEN /\ last' = [computed |-> FALSE, op |-> "update_suggestion",
                                user_id |-> caller, id |-> id, code |-> 404]
                    /\ UNCHANGED suggestions
               ELSE /\ suggestions' =
                          [k \in DOMAIN suggestions |->
                              IF suggestions[k].id = id
                              THEN [suggestions[k] EXCEPT !.status = status]
                              ELSE suggestions[k]]
                    /\ last' = [computed |-> FALSE, op |-> "update_suggestion",
                                user_id |-> caller, id |-> id, code |-> 200]
        /\ UNCHANGED <<dataVars, now, scores, sess, loop, next_id, generated, reqs>>

\* the "diversity" objects the preference updates send ("unset": key not sent)
DiversityPayloads ==
    <<[colors |-> "unset", patterns |-> "unset", seasons |-> "unset", styles |-> "off"],
      [colors |-> "on", patterns |-> "off", seasons |-> "off", styles |-> "off"],
      [colors |-> "off", patterns |-> "on", seasons |-> "off", styles |-> "on"]>>

\* PATCH /quality/preferences with a diversity object: current_div.update(...)
update_preferences(U, payloads) ==
    \E u \in U, payload \in payloads :
        LET current_div == IF prefs[u].has_diversity THEN prefs[u].diversity
                           ELSE [k \in AttrKeys |-> "unset"]
            merged == [k \in AttrKeys |->
                         IF payload[k] # "unset" THEN payload[k] ELSE current_div[k]]
        IN  /\ prefs' = [prefs EXCEPT ![u].has_diversity = TRUE, ![u].diversity = merged]
            /\ UNCHANGED <<items, outfits, wear_logs, owl_items, item_wear_logs, now, scores,
                           suggestions, last, sess, loop, next_id, generated, reqs>>

\* every user owns one item of each core category, the top and the bottom of user 1
\* with colour, pattern and tags; everybody keeps MinRetention days
InitApi ==
    /\ InitRest
    /\ items = [i \in 1..(4 * NumUsers) |->
                  MkItem(i, 1 + ((i - 1) \div 4), "active", Basic(i),
                         Looks[IF i <= 2 THEN i + 1 ELSE 1])]
    /\ outfits = <<>>
    /\ wear_logs = <<>>
    /\ owl_items = {}
    /\ item_wear_logs = <<>>
    /\ prefs = [u \in Users |-> [NoPrefs EXCEPT !.history_retention_days = MinRetention]]

\* the requests of one client for user 1, one after the other, the suggestion updates
\* of every user, and the cleanup task
NextApi ==
    \/ Tick
    \/ GetSummary({"a"}, {1})
    \/ GetSuggestions({"a"}, {1})
    \/ RequestCompute
    \/ SummaryRespond
    \/ SuggestionsRespond
    \/ update_suggestion
    \/ update_preferences({1}, {DiversityPayloads[1]})
    \/ cleanup_quality_history

SpecApi == InitApi /\ [][NextApi]_vars

\* the summary requests of two clients for the same user, interleaved
NextRace ==
    \/ Tick
    \/ GetSummary(Clients, {1})
    \/ RequestCompute
    \/ SummaryRespond
    \/ update_preferences({1}, SeqToSet(DiversityPayloads))

SpecRace == InitApi /\ [][NextRace]_vars

-----------------------------------------------------------------------------
(* Properties of one compute over the stored wardrobe (Spec).              *)

InRange(x, lo, hi) == RLe(RInt(lo), x) /\ RLe(x, RInt(hi))

DimSet == SeqToSet(Dimensions)

\* C1: each of the five scorers returns a score in [0, 100] and a confidence in [0, 1]
C1_ScoresInRange ==
    last.computed =>
        \A d \in DimSet :
            /\ InRange(last.results[d].score, 0, 100)
            /\ InRange(last.results[d].confidence, 0, 1)

\* more ids were worn than there are active items, and the raw sum was cut to 100
C1_Witness ==
    /\ last.computed
    /\ last.results.utilization.why.text = "items worn"
    /\ last.results.utilization.why.items_worn > last.results.utilization.why.items_count
    /\ last.results.utilization.score = RInt(100)

\* the wear events of item id as the claim counts them, read from the tables:
\* outfit_wear_log_item rows of live outfit wear logs, plus live item wear logs
\* without a back-reference
LiveLogIds == {k \in 1..Len(wear_logs) : wear_logs[k].deleted_at = Null}
ClaimedWears(id) ==
    Cardinality({r \in owl_items : r.item_id = id /\ r.wear_log_id \in LiveLogIds})
    + Cardinality({j \in 1..Len(item_wear_logs) :
                     /\ item_wear_logs[j].deleted_at = Null
                     /\ item_wear_logs[j].item_id = id
                     /\ item_wear_logs[j].source_outfit_log_id = Null})
AllItemIds == 1..Len(items)
RECURSIVE ClaimedTotal(_)
ClaimedTotal(S) ==
    IF S = {} THEN 0
    ELSE LET x == CHOOSE y \in S : TRUE IN ClaimedWears(x) + ClaimedTotal(S \ {x})

Util == last.results.utilization

\* C3: the utilization scorer counts, per item, its outfit_wear_log_item rows plus its
\* item wear logs without an outfit back-reference; back-referenced rows add nothing.
\* The counts show in the explanation (items worn, never worn) and in the confidence
\* min(0.95, 0.4 + total_wears / 50).
C3_WearDedup ==
    (last.computed /\ Len(last.ctx.items) >= 3) =>
        LET worn == {id \in AllItemIds : ClaimedWears(id) > 0}
            total == ClaimedTotal(AllItemIds)
        IN  IF total = 0
            THEN Util.contributing_factors = <<"no_wear_logs">>
            ELSE /\ Util.why.items_worn = Cardinality(worn)
                 /\ Util.why.items_never_worn = Len(last.ctx.items) - Cardinality(worn)
                 /\ Util.confidence = RMin(Rat(95, 100), RAdd(Rat(4, 10), Rat(total, 50)))

\* one live outfit wear of 3 items that also wrote 3 linked item wear rows, nothing else:
\* 3 items worn, 3 wears (confidence 0.4 + 3/50)
C3_Witness ==
    /\ last.computed
    /\ Cardinality(LiveLogIds) = 1
    /\ Len(item_wear_logs) = 3
    /\ \A j \in 1..3 : item_wear_logs[j].source_outfit_log_id \in LiveLogIds
    /\ Util.why.text = "items worn"
    /\ Util.why.items_worn = 3
    /\ Util.confidence = Rat(46, 100)

\* C5: the stored total_score and confidence are the weighted sums of the five dimension
\* scores and confidences with weights .30 .25 .20 .15 .10, which sum to 1, so that
\* total_score is in [0, 100] and confidence in [0, 1]
C5_WeightedTotal ==
    \A k \in 1..Len(scores) :
        LET r == scores[k]
            w(n) == Rat(n, 100)
        IN  /\ r.total_score =
                  RSum(<<RMul(r.versatility_score, w(30)), RMul(r.utilization_score, w(25)),
                         RMul(r.completeness_score, w(20)), RMul(r.balance_score, w(15)),
                         RMul(r.diversity_score, w(10))>>)
            /\ r.confidence =
                  RSum(<<RMul(r.explanations.versatility.confidence, w(30)),
                         RMul(r.explanations.utilization.confidence, w(25)),
                         RMul(r.explanations.completeness.confidence, w(20)),
                         RMul(r.explanations.balance.confidence, w(15)),
                         RMul(r.explanations.diversity.confidence, w(10))>>)
            /\ RSum([i \in 1..Len(Dimensions) |-> Weight[Dimensions[i]]]) = RInt(1)
            /\ InRange(r.total_score, 0, 100)
            /\ InRange(r.confidence, 0, 1)

\* a stored score of a user with explicit diversity preferences whose five dimension
\* scores all differ
C5_Witness ==
    /\ Len(scores) = 1
    /\ prefs[1].has_diversity
    /\ Cardinality({scores[1].versatility_score, scores[1].utilization_score,
                    scores[1].completeness_score, scores[1].balance_score,
                    scores[1].diversity_score}) = 5

\* C6: generate returns no suggestion for a dimension that scored 80 or more
C6_NoSuggestionForHighScore ==
    last.computed =>
        \A i \in 1..Len(last.batch) :
            RLt(last.results[last.batch[i].dimension].score, RInt(80))

\* diversity scored 80 or more although its factors name a weakness
C6_Witness ==
    /\ last.computed
    /\ RLe(RInt(80), last.results.diversity.score)
    /\ Has(last.results.diversity.contributing_factors, "low_color_diversity")

\* the batch is ordered by (priority, -expected_impact)
Sorted(batch) ==
    \A i, j \in 1..Len(batch) :
        i < j => \/ batch[i].priority < batch[j].priority
                 \/ /\ batch[i].priority = batch[j].priority
                    /\ RLe(batch[j].expected_impact, batch[i].expected_impact)

Before(batch, typeA, dimA, typeB, dimB) ==
    \A i, j \in 1..Len(batch) :
        (/\ batch[i].suggestion_type = typeA /\ batch[i].dimension = dimA
         /\ batch[j].suggestion_type = typeB /\ batch[j].dimension = dimB) => i < j

\* C7: the returned list is sorted by priority ascending, then expected_impact descending;
\* log_wear (no_wear_logs) precedes create_outfit (no_outfits), which precedes every
\* completeness add_item suggestion
C7_SortedBatch ==
    last.computed =>
        /\ Sorted(last.batch)
        /\ Before(last.batch, "log_wear", "utilization", "create_outfit", "versatility")
        /\ Before(last.batch, "create_outfit", "versatility", "add_item", "completeness")

\* a batch holding all three, and a priority-2 suggestion of a dimension that scored lower
\* than completeness
C7_Witness ==
    /\ last.computed
    /\ \E i, j, k, m \in 1..Len(last.batch) :
          /\ last.batch[i].suggestion_type = "log_wear"
          /\ last.batch[j].suggestion_type = "create_outfit"
          /\ last.batch[k].dimension = "completeness" /\ last.batch[k].category # None
          /\ last.batch[m].dimension = "balance"
    /\ RLt(last.results.balance.score, last.results.completeness.score)

\* C8: at most 10 suggestions, each with a priority in 1..5 and at most 5 related item
\* ids, every one the id of an active item of the snapshot
C8_BatchBounds ==
    last.computed =>
        /\ Len(last.batch) <= 10
        /\ \A i \in 1..Len(last.batch) :
              /\ last.batch[i].priority \in 1..5
              /\ Len(last.batch[i].related_item_ids) <= 5
              /\ \A k \in 1..Len(last.batch[i].related_item_ids) :
                    LET id == last.batch[i].related_item_ids[k]
                    IN  id \in AllItemIds /\ items[id].status = "active"

\* a suggestion about more than 5 items that carries 5 ids
C8_Witness ==
    /\ last.computed
    /\ \E i \in 1..Len(last.batch) :
          /\ last.batch[i].title_n > 5
          /\ Len(last.batch[i].related_item_ids) = 5

\* category of a stored item as the scorers read it, and the active items per category
RawCount(c) ==
    Cardinality({i \in AllItemIds :
                   /\ items[i].status = "active"
                   /\ (IF items[i].category # None THEN items[i].category
                       ELSE items[i].kind) = c})
ActiveCount == Cardinality({i \in AllItemIds : items[i].status = "active"})

Compl == last.results.completeness

\* min(n / 3, 1)
Third(n) == IF n >= 3 THEN RInt(1) ELSE Rat(n, 3)

\* C9: in completeness every onepiece adds one to the effective top count and to the
\* effective bottom count (which show in the covered-categories count and in the variety
\* part of the score); with a onepiece neither top nor bottom is reported missing; one
\* onepiece + one footwear + one outerwear is 4/4 covered, the onepiece being mentioned
C9_OnepieceCompleteness ==
    (last.computed /\ ActiveCount > 0) =>
        LET op == RawCount("onepiece")
            tops == RawCount("top") + op
            bottoms == RawCount("bottom") + op
            covered == Cardinality({n \in {1, 2, 3, 4} :
                                      <<tops, bottoms, RawCount("footwear"),
                                        RawCount("outerwear")>>[n] > 0})
            variety == RMul(RSum(<<Third(tops), Third(bottoms), Third(RawCount("footwear")),
                                   Third(RawCount("outerwear"))>>), Rat(1, 4))
            events == Compl.why.event_types
        IN  /\ Compl.why.core_present = covered
            /\ Compl.score =
                 RSum(<<RMul(Rat(covered, 4), RInt(50)), RMul(variety, RInt(30)),
                        RMul(IF events >= 4 THEN RInt(1) ELSE Rat(events, 4), RInt(20))>>)
            /\ op > 0 =>
                 /\ Compl.why.onepiece = op
                 /\ \A k \in 1..Len(Compl.why.missing) :
                       Compl.why.missing[k] \notin {"top", "bottom"}
                 /\ ~Has(Compl.contributing_factors, "missing_top")
                 /\ ~Has(Compl.contributing_factors, "missing_bottom")
            /\ (ActiveCount = 3 /\ op = 1 /\ RawCount("footwear") = 1
                /\ RawCount("outerwear") = 1) =>
                 Compl.why.core_present = 4 /\ Compl.why.core_total = 4

\* the wardrobe of one onepiece, one footwear and one outerwear was scored 4/4
C9_Witness ==
    /\ last.computed
    /\ ActiveCount = 3
    /\ RawCount("onepiece") = 1 /\ RawCount("footwear") = 1 /\ RawCount("outerwear") = 1
    /\ Compl.why.core_present = 4
    /\ Compl.why.onepiece = 1

Bal == last.results.balance

ReportsRatio(tops, bottoms) ==
    /\ Bal.why.text = "Tops:Bottoms ratio is"
    /\ Bal.why.tops = tops
    /\ Bal.why.bottoms = bottoms

\* C10 as stated: for every snapshot the balance explanation reports the ratio
\* (tops + onepieces):(bottoms + onepieces); three onepieces alone report 3:3
C10_AsStated ==
    last.computed =>
        ReportsRatio(RawCount("top") + RawCount("onepiece"),
                     RawCount("bottom") + RawCount("onepiece"))

\* C10 amended: for every snapshot of at least 5 items the balance explanation reports
\* (tops + onepieces):(bottoms + onepieces), and with fewer than 5 items it reports no
\* ratio ("Need more items to assess balance"); three onepieces with one footwear and one
\* outerwear report 3:3
C10_OnepieceBalance ==
    last.computed =>
        IF ActiveCount >= 5
        THEN ReportsRatio(RawCount("top") + RawCount("onepiece"),
                          RawCount("bottom") + RawCount("onepiece"))
        ELSE Bal.why = [text |-> "Need more items to assess balance"]

\* three onepieces, one footwear and one outerwear were reported as 3:3
C10_Witness ==
    /\ last.computed
    /\ ActiveCount = 5
    /\ RawCount("onepiece") = 3 /\ RawCount("footwear") = 1 /\ RawCount("outerwear") = 1
    /\ ReportsRatio(3, 3)
    /\ Bal.why.onepiece = 3

-----------------------------------------------------------------------------
(* Properties of repeated computes over unchanged stored data (SpecClock). *)

\* the six scores of a stored score row
ScoresOf(r) ==
    <<r.total_score, r.versatility_score, r.utilization_score, r.completeness_score,
      r.balance_score, r.diversity_score>>

\* the items whose last wear is more than NeglectDays before day t
NeglectedAt(t) ==
    LET ctx == _load_context(1, ResolveDiversity(1))
    IN  {id \in LastWornIds(ctx) : item_last_worn(ctx, id) + NeglectDays < t}

\* C4 as stated: any two computes over the same unchanged stored data yield the same
\* total_score and the same five dimension scores
C4_AsStated ==
    \A i, j \in 1..Len(scores) : ScoresOf(scores[i]) = ScoresOf(scores[j])

\* C4 amended: any two computes over the same unchanged stored data yield the same
\* versatility, completeness, balance and diversity scores; they yield the same
\* utilization score and total_score when they read the same clock or, more generally,
\* when no item's last wear is more than 30 days old at one and not at the other
C4_DeterministicUpToClock ==
    \A i, j \in 1..Len(scores) :
        /\ scores[i].versatility_score = scores[j].versatility_score
        /\ scores[i].completeness_score = scores[j].completeness_score
        /\ scores[i].balance_score = scores[j].balance_score
        /\ scores[i].diversity_score = scores[j].diversity_score
        /\ (\/ scores[i].computed_at = scores[j].computed_at
            \/ NeglectedAt(scores[i].computed_at) = NeglectedAt(scores[j].computed_at))
              => ScoresOf(scores[i]) = ScoresOf(scores[j])

\* two computes at different clock readings, with a neglected item at both, agreed
C4_Witness ==
    /\ Len(scores) = 2
    /\ scores[1].computed_at < scores[2].computed_at
    /\ NeglectedAt(scores[1].computed_at) # {}
    /\ NeglectedAt(scores[1].computed_at) = NeglectedAt(scores[2].computed_at)
    /\ ScoresOf(scores[1]) = ScoresOf(scores[2])
    /\ RLt(RInt(20), scores[1].utilization_score)

-----------------------------------------------------------------------------
(* Properties of the persistence steps (SpecPersist).                      *)

DurableScoreIds == {r.id : r \in SeqToSet(scores)}
DurableSuggestionIds(score_id) ==
    {r.id : r \in {q \in SeqToSet(suggestions) : q.score_id = score_id}}

\* C2: in every reachable state, for every score record that compute built, the durable
\* suggestions that point to it are its complete batch if the record is durable and none
\* if it is not; and no durable row was built by anything else
C2_AtomicPersistence ==
    /\ \A k \in 1..Len(generated) :
          DurableSuggestionIds(generated[k].score_id) =
              IF generated[k].score_id \in DurableScoreIds
              THEN generated[k].suggestion_ids ELSE {}
    /\ DurableScoreIds \subseteq {generated[k].score_id : k \in 1..Len(generated)}
    /\ \A r \in SeqToSet(suggestions) : r.score_id \in DurableScoreIds

\* within one run of the loop a compute failed at its commit, after its score row was
\* flushed, and a later compute on the same session stored its score with a batch
C2_Witness ==
    /\ Len(generated) >= 2
    /\ generated[1].suggestion_ids # {}
    /\ generated[1].score_id \notin DurableScoreIds
    /\ generated[2].score_id \in DurableScoreIds
    /\ DurableSuggestionIds(generated[2].score_id) # {}
    /\ loop.pc = "refresh"
    /\ Head(loop.todo) = 2
    /\ now = Today

-----------------------------------------------------------------------------
(* Properties of a growing wardrobe (SpecGrow).                            *)

\* the kinds of the stored items, in the order they were added
KindsAdded == [i \in 1..Len(items) |-> items[i].kind]

\* C11: with items only ever added between computes, the completeness score of a
\* compute is never below that of an earlier one; in particular along top, bottom,
\* footwear, outerwear from the empty wardrobe
C11_CompletenessMonotone ==
    \A i, j \in 1..Len(scores) :
        i < j => RLe(scores[i].completeness_score, scores[j].completeness_score)

\* the five computes of the benchmark: empty, then top, bottom, footwear, outerwear
C11_Witness ==
    /\ KindsAdded = <<"top", "bottom", "footwear", "outerwear">>
    /\ Len(scores) = 5
    /\ scores[1].completeness_score = RInt(0)
    /\ \A k \in 1..4 : RLt(scores[k].completeness_score, scores[k + 1].completeness_score)



-----------------------------------------------------------------------------
\* the effective count of a core category over the stored wardrobe
EffectiveCount(c) ==
    IF c \in {"top", "bottom"} THEN RawCount(c) + RawCount("onepiece") ELSE RawCount(c)

\* the batch holds an add_item, priority-1 completeness suggestion naming category c
SuggestsCategory(c) ==
    \E i \in 1..Len(last.batch) :
        /\ last.batch[i].suggestion_type = "add_item"
        /\ last.batch[i].dimension = "completeness"
        /\ last.batch[i].priority = 1
        /\ last.batch[i].category = c

\* C12: when completeness scores below 80, the batch holds one add_item, priority-1
\* completeness suggestion for every core category whose effective count is zero, each
\* naming its category; a wardrobe of only tops gets one naming bottom or footwear
C12_AsStated ==
    (last.computed /\ ActiveCount > 0 /\ RLt(Compl.score, RInt(HighScore))) =>
        /\ \A c \in CORE_CATEGORIES : EffectiveCount(c) = 0 => SuggestsCategory(c)
        /\ RawCount("top") = ActiveCount =>
              SuggestsCategory("bottom") \/ SuggestsCategory("footwear")

-----------------------------------------------------------------------------
\* the positions of the balance suggestions in the batch
BalanceSuggestions == {i \in 1..Len(last.batch) : last.batch[i].dimension = "balance"}

\* C13: whenever the balance result carries imbalanced_tops_bottoms, the balance score
\* is below 80 and the truncated batch holds exactly one balance suggestion, an add_item
\* of priority 2 recommending the minority side (bottoms when tops exceed bottoms, tops
\* otherwise); ManyTops tops + 1 bottom + 1 footwear score below 70, report the ratio
\* ManyTops:1 and get "Add more bottoms"
C13_ImbalanceSuggestion ==
    (last.computed /\ Has(Bal.contributing_factors, "imbalanced_tops_bottoms")) =>
        LET tops == RawCount("top") + RawCount("onepiece")
            bottoms == RawCount("bottom") + RawCount("onepiece")
        IN  /\ RLt(Bal.score, RInt(HighScore))
            /\ Cardinality(BalanceSuggestions) = 1
            /\ \A i \in BalanceSuggestions :
                  /\ last.batch[i].suggestion_type = "add_item"
                  /\ last.batch[i].priority = 2
                  /\ last.batch[i].title =
                        (IF tops > bottoms THEN "Add more bottoms" ELSE "Add more tops")
            /\ (RawCount("top") = ManyTops /\ RawCount("bottom") = 1
                /\ RawCount("footwear") = 1 /\ ActiveCount = ManyTops + 2) =>
                  /\ RLt(Bal.score, RInt(70))
                  /\ ReportsRatio(ManyTops, 1)

\* the wardrobe of ManyTops tops, one bottom and one footwear was scored and told to
\* add bottoms
C13_Witness ==
    /\ last.computed
    /\ RawCount("top") = ManyTops /\ RawCount("bottom") = 1 /\ RawCount("footwear") = 1
    /\ ActiveCount = ManyTops + 2
    /\ Has(Bal.contributing_factors, "imbalanced_tops_bottoms")
    /\ \E i \in BalanceSuggestions : last.batch[i].title = "Add more bottoms"

-----------------------------------------------------------------------------
Div == last.results.diversity

\* the diversity attributes GET /preferences reports as enabled for user u:
\* DiversityPreferences(**stored) fills every omitted key with its default
ReportedEnabled(u) ==
    {k \in AttrKeys :
        IF prefs[u].has_diversity /\ prefs[u].diversity[k] # "unset"
        THEN prefs[u].diversity[k] = "on"
        ELSE k # "colors"}

\* C14: the attributes the scorer treats as enabled are the stored preferences with the
\* defaults applied to every omitted key (colors off; patterns, seasons, styles on), the
\* set the preferences endpoint reports; no_attributes_enabled (50, confidence 0.8) is
\* returned only when all four are disabled
C14_AsStated ==
    (last.computed /\ ActiveCount >= 3) =>
        /\ Has(Div.contributing_factors, "no_attributes_enabled") =>
              /\ ReportedEnabled(last.user_id) = {}
              /\ Div.score = RInt(50) /\ Div.confidence = Rat(8, 10)
        /\ ReportedEnabled(last.user_id) = {} =>
              Has(Div.contributing_factors, "no_attributes_enabled")
        /\ "enabled" \in DOMAIN Div.why => Div.why.enabled = ReportedEnabled(last.user_id)

-----------------------------------------------------------------------------
\* the result carries exactly this score, confidence and factor
Default(result, score, confidence, factor) ==
    /\ result.score = RInt(score)
    /\ result.confidence = confidence
    /\ result.contributing_factors = <<factor>>

\* some outfit_item row, some counted wear of the context the call loaded
HasOutfitRefs == OutfitRefs(last.ctx.outfits) # <<>>
HasWears == WornIds(last.ctx) # {}

\* the attribute has a value on some active item
HasData(k) ==
    \E i \in AllItemIds :
        /\ items[i].status = "active"
        /\ CASE k = "colors" -> items[i].base_color # None
             [] k = "patterns" -> items[i].pattern # None
             [] k = "seasons" -> items[i].season_tags # {}
             [] k = "styles" -> items[i].style_tags # {}

\* C15: every scorer returns a result for every snapshot (a score and a confidence that
\* are numbers), and each under-populated case returns its documented default:
\* versatility 0/0.3 below 5 items and 30/0.5 without outfits; utilization 0/0.2 below 3
\* items and 20/0.4 without counted wears; completeness 0/0.5 "No items ..." for no
\* items; balance 50/0.3 below 5 items; diversity 50/0.3 below 3 items, 50/0.8 with no
\* attribute enabled, 50/0.4 when no enabled attribute has data
C15_AsStated ==
    last.computed =>
        LET n == ActiveCount
            r == last.results
            enabled == ReportedEnabled(last.user_id)
        IN  /\ \A d \in DimSet : r[d].score[2] > 0 /\ r[d].confidence[2] > 0
            /\ n < 5 => Default(r.versatility, 0, Rat(3, 10), "insufficient_items")
            /\ (n >= 5 /\ ~HasOutfitRefs) => Default(r.versatility, 30, Rat(1, 2), "no_outfits")
            /\ n < 3 => Default(r.utilization, 0, Rat(2, 10), "insufficient_items")
            /\ (n >= 3 /\ ~HasWears) => Default(r.utilization, 20, Rat(4, 10), "no_wear_logs")
            /\ n = 0 => /\ Default(r.completeness, 0, Rat(1, 2), "empty_wardrobe")
                        /\ r.completeness.why.text = "No items in wardrobe yet"
            /\ n < 5 => Default(r.balance, 50, Rat(3, 10), "insufficient_items")
            /\ n < 3 => Default(r.diversity, 50, Rat(3, 10), "insufficient_items")
            /\ (n >= 3 /\ enabled = {}) =>
                  Default(r.diversity, 50, Rat(8, 10), "no_attributes_enabled")
            /\ (n >= 3 /\ enabled # {} /\ \A k \in enabled : ~HasData(k)) =>
                  Default(r.diversity, 50, Rat(4, 10), "missing_attribute_data")

-----------------------------------------------------------------------------
(* Properties of cleanup running beside the refresh task (SpecCleanup).    *)

\* the score rows a cleanup of user u with this retention has to delete, from the
\* committed rows before the step
Expired(u, retention) == {r \in SeqToSet(scores) : r.user_id = u /\ r.computed_at < now - retention}

Orphans(sugs, scs) == {s \in SeqToSet(sugs) : \A r \in SeqToSet(scs) : r.id # s.score_id}

\* C16: a cleanup of user u with retention d deletes exactly the score records of u with
\* computed_at < now - d and the suggestions they own, and returns the number of score
\* records deleted; every other record (newer ones of u, all of other users) is left as
\* it was, and afterwards no suggestion is without its owning score
C16_CleanupFrame ==
    [][(cleanup_quality_history /\ last'.op = "cleanup") =>
         LET gone == Expired(last'.user_id, last'.retention_days)
             gone_ids == {r.id : r \in gone}
         IN  /\ scores' = SelectSeq(scores, LAMBDA r : r \notin gone)
             /\ suggestions' = SelectSeq(suggestions, LAMBDA s : s.score_id \notin gone_ids)
             /\ last'.deleted = Cardinality(gone)
             /\ \A r \in SeqToSet(scores) :
                   (r.user_id # last'.user_id
                    \/ r.computed_at >= now - last'.retention_days)
                   => r \in SeqToSet(scores')
             /\ Orphans(suggestions', scores') = {}]_vars

\* a cleanup has just deleted a score record that owned suggestions while a newer
\* record of the same user and a record of another user stayed
C16_Witness ==
    /\ last.computed = FALSE /\ "op" \in DOMAIN last /\ last.op = "cleanup"
    /\ last.deleted > 0
    /\ \E g \in SeqToSet(generated) :
          /\ g.suggestion_ids # {}
          /\ \A r \in SeqToSet(scores) : r.id # g.score_id
          /\ \A s \in SeqToSet(suggestions) : s.id \notin g.suggestion_ids
    /\ \E r \in SeqToSet(scores) : r.user_id = last.user_id
    /\ \E r \in SeqToSet(scores) : r.user_id # last.user_id

\* the suggestion rows owned by the score row r
OwnedBy(sugs, r) == {s \in SeqToSet(sugs) : s.score_id = r.id}

\* C17: cleanup is safe beside a compute for the same user and idempotent. On every
\* step of every interleaving of the refresh task's compute (flush of the score row,
\* commit with the suggestions, refresh) with the cleanup task: a score record computed
\* at the current instant and all of its suggestions stay; a compute that commits leaves
\* its score record and its whole batch stored, whatever cleanup ran meanwhile; no
\* suggestion is without its owning score; and a cleanup of the same user with the same
\* cutoff as the cleanup before it deletes nothing
C17_CleanupBesideCompute ==
    [][/\ \A r \in SeqToSet(scores) :
             r.computed_at = now =>
                /\ r \in SeqToSet(scores')
                /\ OwnedBy(suggestions', r) = OwnedBy(suggestions, r)
       /\ (loop.pc = "commit" /\ loop'.pc = "refresh") =>
             /\ loop.rec.score_record \in SeqToSet(scores')
             /\ Cardinality(OwnedBy(suggestions', loop.rec.score_record))
                   = Len(loop.rec.batch)
       /\ Orphans(suggestions', scores') = {}
       /\ (/\ cleanup_quality_history
           /\ "op" \in DOMAIN last /\ last.op = "cleanup"
           /\ last'.user_id = last.user_id /\ last'.cutoff = last.cutoff) =>
             /\ last'.deleted = 0
             /\ scores' = scores /\ suggestions' = suggestions]_vars

\* a compute of a user has committed its record and batch after the cleanup task deleted
\* an older record of that user while the compute was under way
C17_Witness ==
    /\ loop.pc = "refresh"
    /\ "op" \in DOMAIN last /\ last.op = "cleanup"
    /\ last.user_id = Head(loop.todo)
    /\ last.deleted > 0
    /\ loop.rec.score_record \in SeqToSet(scores)
    /\ loop.rec.batch # <<>>
    /\ Cardinality(OwnedBy(suggestions, loop.rec.score_record)) = Len(loop.rec.batch)

-----------------------------------------------------------------------------
(* Properties of the requests (SpecApi, SpecRace).                          *)

UserScores(u) == {r \in SeqToSet(scores) : r.user_id = u}

\* what get_latest_score and get_score_history answer for user u in this state
QueryContract(u, limit) ==
    LET latest == get_latest_score(u)
        history == get_score_history(u, limit)
    IN  /\ UserScores(u) = {} <=> latest = {}
        /\ \A r \in latest : r \in UserScores(u)
                             /\ \A q \in UserScores(u) : q.computed_at <= r.computed_at
        /\ Len(history) <= limit
        /\ \A k \in 1..Len(history) : history[k] \in UserScores(u)
        /\ \A j, k \in 1..Len(history) :
              j < k => history[k].computed_at <= history[j].computed_at
        /\ latest # {} => (history # <<>> /\ history[1] \in latest)

\* C18: latest(user) is the user's record with the greatest computed_at, or nothing when
\* the user has none; history(user, limit) has at most limit records, all of that user,
\* in descending computed_at order, starting with the record latest returns; right after
\* a successful compute for the user, latest returns the record that compute created
C18_AsStated ==
    [][/\ \A u \in Users, limit \in 1..2 : QueryContract(u, limit)'
       /\ RequestCompute =>
             \A r \in SeqToSet(scores') \ SeqToSet(scores) :
                 get_latest_score(r.user_id)' = {r}]_vars

\* the records of user u computed before record r
Earlier(u, r) == {q \in UserScores(u) : q.computed_at < r.computed_at}

\* the last of them
Preceding(u, r) == {q \in Earlier(u, r) : \A p \in Earlier(u, r) : p.computed_at <= q.computed_at}

\* C19: in a summary response the trend of the current record is absent exactly when the
\* user has no earlier score record; otherwise delta = current.total_score -
\* previous.total_score and the trend is improving when delta > 2, declining when
\* delta < -2 and stable otherwise (a delta of exactly 2 or -2 is stable)
C19_AsStated ==
    [][SummaryRespond =>
          LET u == last'.user_id
              cur == last'.current
              stored == {r \in UserScores(u) : r.id = cur.id}
          IN  \A r \in stored :
                /\ cur.trend = None <=> Earlier(u, r) = {}
                /\ \A previous \in Preceding(u, r) :
                      LET delta == RSub(r.total_score, previous.total_score)
                      IN  /\ cur.trend_delta = delta
                          /\ cur.trend = (IF RLt(RInt(2), delta) THEN "improving"
                                          ELSE IF RLt(delta, RInt(-2)) THEN "declining"
                                          ELSE "stable")]_vars

\* the score row, or the suggestion row, that has the id of row r in sequence rows
SameId(rows, r) == {q \in SeqToSet(rows) : q.id = r.id}

\* C20: once a score record exists, no operation (compute, summary, suggestions listing,
\* suggestion update, preference update, cleanup) changes any of its fields, and only
\* cleanup deletes it; of an existing suggestion record no operation changes any field
\* but the status
C20_Immutable ==
    [][/\ \A r \in SeqToSet(scores) :
             IF SameId(scores', r) = {} THEN cleanup_quality_history
             ELSE SameId(scores', r) = {r}
       /\ \A s \in SeqToSet(suggestions) :
             IF SameId(suggestions', s) = {} THEN cleanup_quality_history
             ELSE \A q \in SameId(suggestions', s) : [q EXCEPT !.status = s.status] = s]_vars

\* an older score of user 1 was deleted by the cleanup, a newer one is stored with one
\* of its suggestions no longer pending, and the user has changed the preferences
C20_Witness ==
    /\ \E g \in SeqToSet(generated) : \A r \in SeqToSet(scores) : r.id # g.score_id
    /\ \E r \in SeqToSet(scores) :
          \E s \in SeqToSet(suggestions) : s.score_id = r.id /\ s.status # "pending"
    /\ prefs[1].has_diversity
    /\ last.op = "summary"

\* the ids of the stored score rows and of the stored suggestion rows
ScoreIds == {r.id : r \in SeqToSet(scores)}
SuggestionIds == {s.id : s \in SeqToSet(suggestions)}

VersatilityWith(k) ==
    VersatilityScore([last.ctx EXCEPT !.outfits = SubSeq(@, 1, k)]).score

\* C22: for a wardrobe of at least 5 items the versatility score with one outfit is
\* strictly greater than the score with no outfits, and creating a further outfit never
\* decreases the versatility score
C22_AsStated ==
    (last.computed /\ Len(last.ctx.items) >= 5) =>
        /\ Len(last.ctx.outfits) >= 1 => RLt(VersatilityWith(0), VersatilityWith(1))
        /\ \A k \in 1..(Len(last.ctx.outfits) - 1) :
              RLe(VersatilityWith(k), VersatilityWith(k + 1))

\* the loaded wardrobe after k onepiece items were added to it
WithOnepieces(ctx, k) ==
    [ctx EXCEPT !.items =
        @ \o [j \in 1..k |-> MkItem(Len(items) + j, ctx.user_id, "active",
                                    Palette[5], Looks[1])]]

\* C23: adding onepiece items to a wardrobe of at least 5 items whose tops outnumber its
\* bottoms never decreases the balance score of the next compute
C23_AsStated ==
    (/\ last.computed
     /\ Len(last.ctx.items) >= 5
     /\ category_counts(last.ctx, "top") > category_counts(last.ctx, "bottom")) =>
        \A k \in 1..2 :
            RLe(BalanceScore(last.ctx).score, BalanceScore(WithOnepieces(last.ctx, k)).score)

\* tops : bottoms is above 3 or below 0.5
Lopsided(tops, bottoms) == bottoms > 0 /\ (tops > 3 * bottoms \/ 2 * tops < bottoms)

RaisesImbalance == Has(Bal.contributing_factors, "imbalanced_tops_bottoms")

\* C24 as stated: for a snapshot of at least 5 items the balance scorer raises the factor
\* imbalanced_tops_bottoms exactly when the raw tops/bottoms ratio (onepiece items
\* counted on neither side) is greater than 3 or less than 0.5
C24_AsStated ==
    (last.computed /\ ActiveCount >= 5) =>
        (RaisesImbalance <=> Lopsided(RawCount("top"), RawCount("bottom")))

\* C24 amended: for a snapshot of at least 5 items the balance scorer raises the factor
\* imbalanced_tops_bottoms exactly when the effective bottom count is positive and the
\* effective tops/bottoms ratio (every onepiece counted on both sides) is greater than 3
\* or less than 0.5; with fewer than 5 items the factor is never raised
C24_EffectiveRatioFactor ==
    last.computed =>
        (RaisesImbalance <=>
            /\ ActiveCount >= 5
            /\ Lopsided(EffectiveCount("top"), EffectiveCount("bottom")))

\* 4 tops and 1 bottom, raw ratio 4, with 2 onepieces: effective 6:3, no factor
C24_Witness ==
    /\ last.computed
    /\ RawCount("top") = 4 /\ RawCount("bottom") = 1 /\ RawCount("onepiece") = 2
    /\ ReportsRatio(6, 3)
    /\ ~RaisesImbalance

\* the items with a wear event, and their counts in ascending order c_1..c_n
ClaimedWorn == {id \in AllItemIds : ClaimedWears(id) > 0}
ClaimedCounts == SortedValues(ClaimedWorn, [id \in ClaimedWorn |-> ClaimedWears(id)])

\* sum of i * c_i for i = 1..n
RECURSIVE RankSum(_)
RankSum(c) == IF c = <<>> THEN 0 ELSE RankSum(SubSeq(c, 1, Len(c) - 1)) + Len(c) * c[Len(c)]

\* G = 2 * sum(i * c_i) / (n * sum(c_i)) - (n + 1) / n
ClaimedG ==
    LET n == Len(ClaimedCounts)
    IN  RSub(Rat(2 * RankSum(ClaimedCounts), n * SumSeq(ClaimedCounts)), Rat(n + 1, n))

\* the distribution component of the utilization score
Component == IF Len(ClaimedCounts) > 1 THEN RMul(RSub(RInt(1), ClaimedG), RInt(30)) ELSE RInt(15)

\* C25: when n > 1 items have been worn the utilization scorer uses the Gini term
\* G = 2*sum(i*c_i)/(n*sum(c_i)) - (n+1)/n over the ascending wear counts, which lies
\* in [0, (n-1)/n] and is 0 exactly when all worn items have the same count, so that the
\* distribution component (1-G)*30 lies in (0, 30]; with exactly one worn item the
\* component is 15; the utilization score is
\* clamp(worn_ratio*35 + active_ratio*35 + component)
C25_GiniComponent ==
    (last.computed /\ Len(last.ctx.items) >= 3 /\ ClaimedWorn # {}) =>
        LET n == Len(ClaimedCounts)
            item_count == Len(last.ctx.items)
        IN  /\ n > 1 =>
                  /\ RLe(RInt(0), ClaimedG) /\ RLe(ClaimedG, Rat(n - 1, n))
                  /\ ClaimedG = RInt(0) <=> \A i \in 1..n : ClaimedCounts[i] = ClaimedCounts[1]
                  /\ RLt(RInt(0), Component) /\ RLe(Component, RInt(30))
            /\ n = 1 => Component = RInt(15)
            /\ Util.score =
                  _clamp_score(RAdd(RAdd(RMul(Rat(n, item_count), RInt(35)),
                                         RMul(Rat(n - Util.why.neglected, item_count),
                                              RInt(35))),
                                    Component))

\* three items were worn, one of them twice: G = 1/6 and the component is 25
C25_Witness ==
    /\ last.computed
    /\ Len(last.ctx.items) >= 3
    /\ ClaimedCounts = <<1, 1, 2>>
    /\ ClaimedG = Rat(1, 6)
    /\ RLt(Util.score, RInt(100))

\* C26: every suggestion is created with status pending; the update operation sets the
\* status only to dismissed or completed, and only when the caller owns the suggestion
\* (otherwise it answers not-found and changes nothing); a suggestion that has left
\* pending never returns to pending
C26_StatusLifecycle ==
    [][/\ \A q \in SeqToSet(suggestions') :
             SameId(suggestions, q) = {} => q.status = "pending"
       /\ \A s \in SeqToSet(suggestions) : \A q \in SameId(suggestions', s) :
             /\ q.status # s.status =>
                   /\ update_suggestion
                   /\ q.status \in {"dismissed", "completed"}
                   /\ last'.code = 200 /\ last'.id = s.id /\ last'.user_id = s.user_id
             /\ s.status # "pending" => q.status # "pending"
       /\ update_suggestion =>
             LET owned == {s \in SeqToSet(suggestions) :
                             s.id = last'.id /\ s.user_id = last'.user_id}
             IN  IF owned = {}
                 THEN last'.code = 404 /\ suggestions' = suggestions
                 ELSE /\ last'.code = 200
                      /\ \A s \in SeqToSet(suggestions) \ owned : s \in SeqToSet(suggestions')
                      /\ \A s \in owned : \A q \in SameId(suggestions', s) :
                            q.status \in {"dismissed", "completed"}]_vars

\* user 1's suggestion was dismissed or completed, and the last request, by another
\* user for that suggestion, was answered not-found
C26_Witness ==
    /\ NotPending # {}
    /\ last.op = "update_suggestion"
    /\ last.code = 404
    /\ \E s \in SeqToSet(suggestions) :
          s.id = last.id /\ s.user_id # last.user_id /\ s.status # "pending"

-----------------------------------------------------------------------------
(* Properties of the scheduled refresh (SpecPersist).                       *)

\* user u has no score record, or the latest one plus the refresh interval is not later
\* than now
Due(u) ==
    \/ get_latest_score(u) = {}
    \/ \E latest \in get_latest_score(u) : latest.computed_at + interval_days(u) <= now

\* C27: one run of refresh_all_quality_scores recomputes a user's score if and only if
\* the user has no score record or the latest record's computed_at plus the user's
\* refresh_interval_days is not later than now; a user whose latest score is younger
\* gets no new record; each successful recompute is followed by a cleanup with that
\* user's retention; a user the run has dealt with without error has a latest score no
\* older than the refresh interval
C27_AsStated ==
    [][/\ loop.pc = "due" =>
             LET u == Head(loop.todo)
             IN  /\ Due(u) <=> (loop'.pc = "compute" /\ Head(loop'.todo) = u)
                 /\ scores' = scores
                 /\ ~Due(u) => (\/ loop'.pc = "idle" /\ Len(loop.todo) = 1
                                \/ loop'.pc = "due" /\ loop'.todo = Tail(loop.todo))
       /\ (loop.pc = "refresh" /\ loop'.pc # "cleanup") => scores' = scores
       /\ loop.pc = "cleanup" =>
             \A u \in {Head(loop.todo)} :
                 LET old == {r \in SeqToSet(scores) :
                               r.user_id = u /\ r.computed_at < now - retention_days(u)}
                 IN  /\ SeqToSet(scores') \in {SeqToSet(scores), SeqToSet(scores) \ old}
                     /\ ~Due(u)']_vars

-----------------------------------------------------------------------------
\* C30: in every summary response, also when another compute for the same user commits
\* between this request's compute and its history read, the record returned as current
\* does not appear in the returned history list, and the trend of current is computed
\* against the record immediately preceding it in computed_at order, never against
\* current itself or a newer record
C30_AsStated ==
    [][SummaryRespond =>
          LET u == last'.user_id
              cur == last'.current
          IN  /\ \A k \in 1..Len(last'.history) : last'.history[k] # cur.id
              /\ \A r \in {q \in UserScores(u) : q.id = cur.id} :
                    IF Preceding(u, r) = {} THEN last'.prev_id = Null
                    ELSE \E previous \in Preceding(u, r) : last'.prev_id = previous.id]_vars

-----------------------------------------------------------------------------
(* Wear logging. The requests of user 1 that write and soft-delete wear     *)
(* rows, each one transaction, and the refresh that loads the snapshot. The *)
(* requests come first: none runs once the score is stored.                *)

MaxWearOps == 2        \* outfit wear logs written in one behaviour
MaxItemOps == 2        \* item wear logs written in one behaviour

\* worn dates a request can name; only Today makes photo-apply write item wear rows
WearDays == {RecentDay, Today}

\* what the photo analysis matched (at least two items are needed to match an outfit)
MatchedItems == {<<1, 2>>}

\* the non-deleted outfit wear logs of outfit o on day d
ExistingLogs(o, d) ==
    {k \in 1..Len(wear_logs) :
        /\ wear_logs[k].user_id = 1
        /\ wear_logs[k].outfit_id = o
        /\ wear_logs[k].worn_at = d
        /\ wear_logs[k].deleted_at = Null}

\* the non-deleted item wear logs of item i on day d
ExistingItemLogs(i, d) ==
    {j \in 1..Len(item_wear_logs) :
        /\ item_wear_logs[j].user_id = 1
        /\ item_wear_logs[j].item_id = i
        /\ item_wear_logs[j].worn_at = d
        /\ item_wear_logs[j].deleted_at = Null}

NewWearLog(o, d) ==
    [id |-> Len(wear_logs) + 1, user_id |-> 1, outfit_id |-> o,
     worn_at |-> d, created_at |-> now, deleted_at |-> Null]

\* POST /outfits/{outfit_id}/wear-log: idempotent per day, writes the log and one
\* outfit_wear_log_item per item of the outfit
log_wear(o, d) ==
    /\ scores = <<>>
    /\ o \in 1..Len(outfits)
    /\ outfits[o].user_id = 1
    /\ ExistingLogs(o, d) = {}
    /\ Len(wear_logs) < MaxWearOps
    /\ wear_logs' = Append(wear_logs, NewWearLog(o, d))
    /\ owl_items' = owl_items \cup
                    {[wear_log_id |-> Len(wear_logs) + 1, item_id |-> i] :
                        i \in SeqToSet(outfits[o].items)}
    /\ UNCHANGED <<items, outfits, item_wear_logs, prefs, now, scores, suggestions,
                   last, sess, loop, next_id, generated, reqs>>

\* POST /items/{item_id}/wear-log: idempotent per day, no back-reference
log_item_wear(i, d) ==
    /\ scores = <<>>
    /\ i \in 1..Len(items)
    /\ items[i].user_id = 1
    /\ ExistingItemLogs(i, d) = {}
    /\ Len(item_wear_logs) < MaxItemOps
    /\ item_wear_logs' = Append(item_wear_logs,
                                [user_id |-> 1, item_id |-> i, worn_at |-> d,
                                 created_at |-> now, source_outfit_log_id |-> Null,
                                 deleted_at |-> Null])
    /\ UNCHANGED <<items, outfits, wear_logs, owl_items, prefs, now, scores, suggestions,
                   last, sess, loop, next_id, generated, reqs>>

\* the outfit the matcher found for the matched items: one with exactly that item set
MatchedOutfits(matched) ==
    {o \in 1..Len(outfits) :
        outfits[o].user_id = 1 /\ SeqToSet(outfits[o].items) = SeqToSet(matched)}

\* the item wear rows photo-apply adds for the matched items that have none that day
RECURSIVE PhotoRows(_, _, _)
PhotoRows(matched, d, log_id) ==
    IF matched = <<>> THEN <<>>
    ELSE (IF ExistingItemLogs(Head(matched), d) = {}
          THEN <<[user_id |-> 1, item_id |-> Head(matched), worn_at |-> d,
                  created_at |-> now, source_outfit_log_id |-> log_id,
                  deleted_at |-> Null]>>
          ELSE <<>>)
         \o PhotoRows(Tail(matched), d, log_id)

\* POST /outfit-photos/{photo_id}/apply: takes the matched outfit or creates one from
\* the matched items, reuses the day's wear log of that outfit or writes a new one with
\* its outfit_wear_log_items, and for a photo of today adds item wear rows that point
\* back to the log
apply_outfit_photo(matched, force_create, d) ==
    LET found == IF force_create THEN {} ELSE MatchedOutfits(matched)
        created == found = {}
        o == IF created THEN Len(outfits) + 1 ELSE CHOOSE x \in found : TRUE
        outfit_items == IF created THEN matched ELSE outfits[o].items
        existing == ExistingLogs(o, d)
        log_id == IF existing = {} THEN Len(wear_logs) + 1 ELSE CHOOSE k \in existing : TRUE
        rows == IF d = now THEN PhotoRows(matched, d, log_id) ELSE <<>>
    IN  /\ scores = <<>>
        /\ created => Len(outfits) < MaxOutfits
        /\ existing = {} => Len(wear_logs) < MaxWearOps
        /\ Len(item_wear_logs) + Len(rows) <= MaxItemOps
        /\ outfits' = IF created
                      THEN Append(outfits, [id |-> o, user_id |-> 1, items |-> matched])
                      ELSE outfits
        /\ wear_logs' = IF existing = {} THEN Append(wear_logs, NewWearLog(o, d))
                        ELSE wear_logs
        /\ owl_items' = IF existing = {}
                        THEN owl_items \cup {[wear_log_id |-> log_id, item_id |-> i] :
                                                i \in SeqToSet(outfit_items)}
                        ELSE owl_items
        /\ item_wear_logs' = item_wear_logs \o rows
        /\ UNCHANGED <<items, prefs, now, scores, suggestions, last, sess, loop,
                       next_id, generated, reqs>>

\* PATCH /outfits/{outfit_id}/wear-log/{log_id}: soft-deletes the outfit wear log only
delete_wear_log_entry(k) ==
    /\ scores = <<>>
    /\ k \in 1..Len(wear_logs)
    /\ wear_logs[k].user_id = 1
    /\ wear_logs[k].deleted_at = Null
    /\ wear_logs' = [wear_logs EXCEPT ![k].deleted_at = now]
    /\ UNCHANGED <<items, outfits, owl_items, item_wear_logs, prefs, now, scores,
                   suggestions, last, sess, loop, next_id, generated, reqs>>

\* PATCH /items/{item_id}/wear-log/{log_id}: soft-deletes the item wear log
delete_item_wear_log(j) ==
    /\ scores = <<>>
    /\ j \in 1..Len(item_wear_logs)
    /\ item_wear_logs[j].user_id = 1
    /\ item_wear_logs[j].deleted_at = Null
    /\ item_wear_logs' = [item_wear_logs EXCEPT ![j].deleted_at = now]
    /\ UNCHANGED <<items, outfits, wear_logs, owl_items, prefs, now, scores,
                   suggestions, last, sess, loop, next_id, generated, reqs>>

\* three active items and an archived one, one outfit, nothing worn yet
InitWearOps ==
    /\ InitRest
    /\ items = PlainItems(3, 1)
    /\ outfits = <<[id |-> 1, user_id |-> 1, items |-> <<1, 2>>]>>
    /\ wear_logs = <<>>
    /\ owl_items = {}
    /\ item_wear_logs = <<>>
    /\ prefs = [u \in Users |-> NoPrefs]

NextWearOps ==
    \/ \E o \in 1..MaxOutfits : \E d \in WearDays : log_wear(o, d)
    \/ \E i \in 1..MaxItems : \E d \in WearDays : log_item_wear(i, d)
    \/ \E matched \in MatchedItems : \E force_create \in BOOLEAN : \E d \in WearDays :
          apply_outfit_photo(matched, force_create, d)
    \/ \E k \in 1..MaxWearOps : delete_wear_log_entry(k)
    \/ \E j \in 1..MaxItemOps : delete_item_wear_log(j)
    \/ Refresh

SpecWearOps == InitWearOps /\ [][NextWearOps]_vars

\* C28: in every snapshot the engine loads after outfit wear logging, item wear
\* logging, photo-apply and soft-deletes, each non-deleted item wear log with a
\* back-reference to an outfit wear log has a matching outfit_wear_log_item (same
\* wear log, same item) loaded in the same snapshot, so that skipping the
\* back-referenced rows drops no wear event
C28_AsStated ==
    last.computed =>
        \A j \in 1..Len(last.ctx.item_wear_logs) :
            LET l == last.ctx.item_wear_logs[j]
            IN  l.source_outfit_log_id # Null =>
                    [wear_log_id |-> l.source_outfit_log_id, item_id |-> l.item_id]
                        \in last.ctx.outfit_wear_log_items

\* C29: the utilization counts agree with the item set of the snapshot (active items
\* only, all non-deleted wear logs): items_worn <= item_count, never_worn =
\* item_count - items_worn >= 0, 0 <= neglected <= items_worn, and the number of
\* never-worn items the scorer reports is the number the wear_more suggestion counts
C29_AsStated ==
    (last.computed /\ Util.why.text = "items worn") =>
        /\ Util.why.items_worn <= Util.why.items_count
        /\ Util.why.items_never_worn = Util.why.items_count - Util.why.items_worn
        /\ Util.why.items_never_worn >= 0
        /\ 0 <= Util.why.neglected
        /\ Util.why.neglected <= Util.why.items_worn
        /\ \A k \in 1..Len(last.batch) :
              last.batch[k].suggestion_type = "wear_more" =>
                  last.batch[k].title_n = Util.why.items_never_worn

=============================================================================
